---------------------------- MODULE Spec2Model ----------------------------
(***************************************************************************)
(* Portfolio bucketing and transition tracking of asset_pricing_code.      *)
(*                                                                         *)
(* Conventions of the model                                                *)
(*   - a floating-point value is an exact rational <<n, d>> with d > 0;    *)
(*     the missing value NaN is <<0, 0>>, an infinity is <<n, 0>> with     *)
(*     n # 0.  Rounding is not modelled.                                   *)
(*   - a month-end date is a month index 12 * year + (month - 1).          *)
(*   - a data frame is a set of row records, or a sequence of them where   *)
(*     the code relies on the row order.                                   *)
(*   - a bucket label is the string the code builds: "" or str(i).         *)
(***************************************************************************)
EXTENDS Integers, Sequences, FiniteSets, TLC

VARIABLES
    pc,                 \* which entry point has run
    quantiles,          \* argument quantiles
    lookback_period,    \* argument lookback_period (momentum)
    lag,                \* argument lag (momentum)
    nyse_only,          \* argument nyse_only
    row,                \* the data-frame row handed to quantile_bucket
    label,              \* what quantile_bucket returned
    comp,               \* data/processed_comp_funda.csv
    ccm,                \* data/raw_crsp_compustat_linking_table.csv
    crsp_jun,           \* data/processed_crsp_jun.csv
    crsp2,              \* the monthly panel before its weight column (crsp2)
    crsp3,              \* data/processed_crsp_data.csv
    ccm_jun,            \* data/processed_crsp_jun1.csv
    universe_ff,        \* breakpoints per June (universe_ff)
    universe_mom,       \* breakpoints per month (universe_mom)
    june,               \* the June table with its buckets (june)
    ccm3,               \* the monthly panel joined with june (ccm3)
    ccm4,               \* the kept rows of ccm3, sorted (ccm4)
    crsp4,              \* the monthly panel with its momentum buckets (crsp4)
    crsp5,              \* the kept rows of crsp4, sorted (crsp5)
    transitions_csv,    \* processed_*_transitions_*.csv as written
    transition_counts,  \* pivot table of the link counts
    transition_probs,   \* row-normalised pivot table
    vwret,              \* the (period, label) groups that were aggregated
    sign,               \* argument sign of the quantile sorts
    ff_factors,         \* the 'H-L' column per date, or KeyError
    files,              \* the factor files of data/: absent, stale or fresh
    files_read          \* what compare_with_fama_french found when it read

argVars == <<quantiles, lookback_period, lag, nyse_only>>

inputVars == <<comp, ccm, crsp_jun>>

fileVars == <<inputVars, crsp2, crsp3, ccm_jun>>

rowVars == <<row, label>>

ffVars == <<universe_ff, june, ccm3, ccm4>>

momVars == <<universe_mom, crsp4, crsp5>>

probVars == <<transition_counts, transition_probs>>

sortVars == <<sign, ff_factors>>

stageVars == <<files, files_read>>

vars == <<pc, argVars, fileVars, rowVars, ffVars, momVars, transitions_csv,
          probVars, vwret, sortVars, stageVars>>

-----------------------------------------------------------------------------
(* Numbers *)

NaN == <<0, 0>>

Num(v) == <<v, 1>>

IsNaN(x) == x[1] = 0 /\ x[2] = 0

IsInf(x) == x[1] # 0 /\ x[2] = 0

\* x <= y of IEEE floats: FALSE as soon as one side is NaN
Leq(x, y) == /\ ~IsNaN(x)
             /\ ~IsNaN(y)
             /\ x[1] * y[2] <= y[1] * x[2]

\* x > y of IEEE floats
Gt(x, y) == /\ ~IsNaN(x)
            /\ ~IsNaN(y)
            /\ x[1] * y[2] > y[1] * x[2]

\* x == y of IEEE floats
NumEq(x, y) == /\ ~IsNaN(x)
               /\ ~IsNaN(y)
               /\ x[1] * y[2] = y[1] * x[2]
               /\ (IsInf(x) /\ IsInf(y)) => ((x[1] > 0) <=> (y[1] > 0))

\* x * y, x + y and x / y of IEEE floats (no exception on a zero divisor)
Mul(x, y) == IF IsNaN(x) \/ IsNaN(y) THEN NaN ELSE <<x[1] * y[1], x[2] * y[2]>>

Add(x, y) ==
    IF IsNaN(x) \/ IsNaN(y) THEN NaN
    ELSE IF x[2] = y[2] THEN <<x[1] + y[1], x[2]>>
    ELSE <<x[1] * y[2] + y[1] * x[2], x[2] * y[2]>>

Div(x, y) ==
    IF IsNaN(x) \/ IsNaN(y) THEN NaN
    ELSE IF x[2] * y[1] < 0 THEN <<0 - x[1] * y[2], 0 - x[2] * y[1]>>
    ELSE <<x[1] * y[2], x[2] * y[1]>>

\* str(i) for the labels the model uses
StrOf(i) ==
    IF i = 0 THEN "0"
    ELSE <<"1", "2", "3", "4", "5", "6", "7", "8", "9", "10">>[i]

\* int(s) as read_csv parses a label column
IntOf(s) == CHOOSE i \in 1..10 : StrOf(i) = s

-----------------------------------------------------------------------------
(* Dates *)

Year(t) == t \div 12

Month(t) == (t % 12) + 1

Date(y, m) == 12 * y + (m - 1)

FFYearWrong(t) == Year(t)

FFYear(t) == Year(t - 6)

-----------------------------------------------------------------------------
(* Bucket assigner *)

\* f'{i * 100 // quantiles}%': the column quantile_bucket reads for boundary i
ColumnOf(i, q) == (i * 100) \div q

\* quantile_bucket with `<` in place of `<=`
RECURSIVE BucketScanStrict(_, _, _)
BucketScanStrict(r, q, i) ==
    IF i >= q THEN StrOf(q)
    ELSE IF Leq(r.factor, r.bp[ColumnOf(i, q)])
            /\ ~NumEq(r.factor, r.bp[ColumnOf(i, q)]) THEN StrOf(i)
    ELSE BucketScanStrict(r, q, i + 1)

quantile_bucket_strict(r, q) ==
    IF IsNaN(r.factor) THEN "" ELSE BucketScanStrict(r, q, 1)

\* the for loop of quantile_bucket, from boundary i on
RECURSIVE BucketScan(_, _, _)
BucketScan(r, q, i) ==
    IF i >= q THEN StrOf(q)
    ELSE IF Leq(r.factor, r.bp[ColumnOf(i, q)]) THEN StrOf(i)
    ELSE BucketScan(r, q, i + 1)

\* r.factor is row[factor]; r.bp maps a percentile column to its value
quantile_bucket_unchecked(r, q) == BucketScan(r, q, 1)

quantile_bucket(r, q) ==
    IF IsNaN(r.factor) THEN "" ELSE BucketScan(r, q, 1)

-----------------------------------------------------------------------------
(* Bounds of the model *)

\* factor values are the whole numbers 0..MaxFactor, or NaN
MaxFactor == 2

FactorValues == {Num(v) : v \in 0..MaxFactor} \cup {NaN}

\* quantile counts whose percentiles 100 * i / quantiles are whole numbers
BucketQuantiles == {2, 4, 5}

BreakpointColumns(q) == {ColumnOf(i, q) : i \in 1..(q - 1)}

Unused == <<>>

-----------------------------------------------------------------------------
(* SpecBucket: quantile_bucket applied to one arbitrary row *)

InitBucket ==
    /\ files = Unused /\ files_read = Unused
    /\ pc = "row"
    /\ comp = Unused /\ ccm = Unused /\ crsp_jun = Unused
    /\ sign = Unused /\ ff_factors = Unused
    /\ crsp2 = Unused
    /\ quantiles \in BucketQuantiles
    /\ row \in [factor : FactorValues,
                 bp : [BreakpointColumns(quantiles) -> FactorValues]]
    /\ label = Unused
    /\ lookback_period = Unused /\ lag = Unused /\ nyse_only = Unused
    /\ crsp3 = Unused /\ ccm_jun = Unused /\ june = Unused
    /\ universe_ff = Unused /\ universe_mom = Unused
    /\ ccm3 = Unused /\ ccm4 = Unused /\ crsp4 = Unused /\ crsp5 = Unused
    /\ transitions_csv = Unused
    /\ transition_counts = Unused /\ transition_probs = Unused
    /\ vwret = Unused

AssignBucket ==
    /\ pc = "row"
    /\ label' = quantile_bucket(row, quantiles)
    /\ pc' = "bucketed"
    /\ UNCHANGED <<stageVars, quantiles, lookback_period, lag, nyse_only, row, fileVars,
                   ffVars, momVars, transitions_csv, probVars, vwret, sortVars>>

NextBucket == AssignBucket

SpecBucket == InitBucket /\ [][NextBucket]_vars

\* boundary i of the row
Boundary(i) == row.bp[ColumnOf(i, quantiles)]

AllBoundariesPresent == \A i \in 1..(quantiles - 1) : ~IsNaN(Boundary(i))

\* the boundaries the factor value does not exceed
Satisfying == {i \in 1..(quantiles - 1) : Leq(row.factor, Boundary(i))}

\* C1: for a non-missing factor value and non-missing breakpoints the label
\* is str(i) for the smallest boundary i with value <= b_i, str(quantiles)
\* when the value exceeds every boundary; equality goes to the lower bucket.
C1_BoundaryScan ==
    (pc = "bucketed" /\ ~IsNaN(row.factor) /\ AllBoundariesPresent) =>
        /\ Satisfying = {} => label = StrOf(quantiles)
        /\ Satisfying # {} =>
              \E i \in Satisfying :
                  /\ \A j \in Satisfying : i <= j
                  /\ label = StrOf(i)
        /\ \A i \in 1..(quantiles - 1) :
              (NumEq(row.factor, Boundary(i))
               /\ \A j \in 1..(i - 1) : Gt(row.factor, Boundary(j)))
                  => label = StrOf(i)

\* a value equal to its boundary, above the boundaries before it
C1_Witness ==
    /\ pc = "bucketed"
    /\ quantiles = 4
    /\ AllBoundariesPresent
    /\ NumEq(row.factor, Boundary(2))
    /\ Gt(row.factor, Boundary(1))
    /\ label = "2"

-----------------------------------------------------------------------------
(* Transition probabilities: calculate_*_transition_probabilities *)

\* the date restriction jdate >= '1963-07-01' and jdate <= '2022-12-31'
WindowStart == Date(1963, 7)

WindowEnd == Date(2022, 12)

InWindow(t) == t >= WindowStart /\ t <= WindowEnd

\* read_csv of the transitions file: the label columns parse as integers
ReadTransitions(f) ==
    [k \in 1..Len(f) |->
        [jdate |-> f[k].jdate,
         factor_portfolio |-> IntOf(f[k].factor_portfolio),
         past_portfolio |-> IntOf(f[k].past_portfolio)]]

Restricted(f) ==
    LET KeepRow(r) == InWindow(r.jdate)
    IN  SelectSeq(ReadTransitions(f), KeepRow)

\* number of rows of sequence f with the given past and current label
CountOf(f, p, c) ==
    Cardinality({k \in 1..Len(f) : /\ f[k].past_portfolio = p
                                   /\ f[k].factor_portfolio = c})

\* pd.pivot_table(values='count', index='past_portfolio',
\* columns='factor_portfolio', aggfunc='sum'): the labels that occur span
\* the table, a cell no row falls in is NaN
PivotTable(f) ==
    LET idx == {f[k].past_portfolio : k \in 1..Len(f)}
        cols == {f[k].factor_portfolio : k \in 1..Len(f)}
    IN  [index |-> idx,
         columns |-> cols,
         cell |-> [pc_ \in idx \X cols |->
                      IF CountOf(f, pc_[1], pc_[2]) = 0 THEN NaN
                      ELSE Num(CountOf(f, pc_[1], pc_[2]))]]

\* DataFrame.sum(axis=1) of row p: NaN cells are skipped
RECURSIVE SumCells(_, _, _)
SumCells(t, p, cols) ==
    IF cols = {} THEN 0
    ELSE LET c == CHOOSE x \in cols : TRUE
             v == t.cell[<<p, c>>]
         IN  (IF IsNaN(v) THEN 0 ELSE v[1]) + SumCells(t, p, cols \ {c})

RowSum(t, p) == SumCells(t, p, t.columns)

\* x / total * 100 of floats: NaN stays NaN, a zero total gives NaN or inf
\* and never raises
DivTimes100(x, total) ==
    IF IsNaN(x) \/ total = 0 THEN NaN ELSE <<100 * x[1], total>>

\* transition_counts.div(transition_counts.sum(axis=1), axis=0) * 100
Normalize(t) ==
    [index |-> t.index,
     columns |-> t.columns,
     cell |-> [pc_ \in t.index \X t.columns |->
                  DivTimes100(t.cell[pc_], RowSum(t, pc_[1]))]]

calculate_mom_transition_probabilities ==
    /\ pc = "mom_csv"
    /\ transition_counts' = PivotTable(Restricted(transitions_csv))
    /\ transition_probs' = Normalize(transition_counts')
    /\ pc' = "mom_probs"
    /\ UNCHANGED <<stageVars, argVars, fileVars, rowVars, ffVars, momVars,
                   transitions_csv, vwret, sortVars>>

calculate_ff_transition_probabilities ==
    /\ pc = "ff_csv"
    /\ transition_counts' = PivotTable(Restricted(transitions_csv))
    /\ transition_probs' = Normalize(transition_counts')
    /\ pc' = "ff_probs"
    /\ UNCHANGED <<stageVars, argVars, fileVars, rowVars, ffVars, momVars,
                   transitions_csv, vwret, sortVars>>

-----------------------------------------------------------------------------
(* SpecProb: the probability step on an arbitrary transitions file *)

\* at most MaxLinks rows in the file
MaxLinks == 3

ProbQuantiles == {2, 3}

\* month ends on both sides of the two ends of the evaluation window
ProbDates == {WindowStart - 1, WindowStart, WindowEnd, WindowEnd + 1}

LinkRows(q) ==
    [PERMNO : {1}, jdate : ProbDates,
     factor_portfolio : {StrOf(i) : i \in 1..q},
     past_portfolio : {StrOf(i) : i \in 1..q}]

InitProb ==
    /\ files = Unused /\ files_read = Unused
    /\ pc \in {"mom_csv", "ff_csv"}
    /\ comp = Unused /\ ccm = Unused /\ crsp_jun = Unused
    /\ sign = Unused /\ ff_factors = Unused
    /\ crsp2 = Unused
    /\ quantiles \in ProbQuantiles
    /\ \E n \in 0..MaxLinks : transitions_csv \in [1..n -> LinkRows(quantiles)]
    /\ transition_counts = Unused /\ transition_probs = Unused
    /\ row = Unused /\ label = Unused
    /\ lookback_period = Unused /\ lag = Unused /\ nyse_only = Unused
    /\ crsp3 = Unused /\ ccm_jun = Unused /\ june = Unused
    /\ universe_ff = Unused /\ universe_mom = Unused
    /\ ccm3 = Unused /\ ccm4 = Unused /\ crsp4 = Unused /\ crsp5 = Unused
    /\ vwret = Unused

NextProb ==
    \/ calculate_mom_transition_probabilities
    \/ calculate_ff_transition_probabilities

SpecProb == InitProb /\ [][NextProb]_vars

ProbsDone == pc \in {"mom_probs", "ff_probs"}

Labels == 1..quantiles

\* links of the file whose current date lies in July 1963..December 2022
\* with past label p and current label c
WindowCount(p, c) ==
    Cardinality({k \in 1..Len(transitions_csv) :
        /\ transitions_csv[k].jdate >= Date(1963, 7)
        /\ transitions_csv[k].jdate <= Date(2022, 12)
        /\ transitions_csv[k].past_portfolio = StrOf(p)
        /\ transitions_csv[k].factor_portfolio = StrOf(c)})

RECURSIVE WindowTotal(_, _)
WindowTotal(p, cs) ==
    IF cs = {} THEN 0
    ELSE LET c == CHOOSE x \in cs : TRUE
         IN  WindowCount(p, c) + WindowTotal(p, cs \ {c})

\* number of links the probability step counts
Counted == Cardinality({k \in 1..Len(transitions_csv) :
               /\ transitions_csv[k].jdate >= Date(1963, 7)
               /\ transitions_csv[k].jdate <= Date(2022, 12)})

\* C9: the probability matrix is square over the labels 1..quantiles; a past
\* bucket without a counted transition is a row of missing values (stated
\* for an evaluation window that holds at least one link).
C9_SquareMatrix ==
    (ProbsDone /\ Counted > 0) =>
        /\ transition_probs.index = Labels
        /\ transition_probs.columns = Labels
        /\ \A p \in Labels :
              WindowTotal(p, Labels) = 0 =>
                  \A c \in Labels : IsNaN(transition_probs.cell[<<p, c>>])

\* C10: every entry of a row with a nonzero count total equals
\* 100 * count(past, current) / row total, counted over the links dated
\* July 1963..December 2022.
C10_RowStochastic ==
    ProbsDone =>
        \A p \in transition_probs.index, c \in transition_probs.columns :
            WindowTotal(p, Labels) # 0 =>
                NumEq(transition_probs.cell[<<p, c>>],
                      <<100 * WindowCount(p, c), WindowTotal(p, Labels)>>)

-----------------------------------------------------------------------------
(* Breakpoint engine: groupby(['jdate'])[factor].describe(percentiles) *)

\* the label a column holds where a left merge found no partner, or a shift
\* no earlier row (NaN in an object column)
Missing == "NaN"

\* (SHRCD == 10) | (SHRCD == 11)
Common(r) == r.SHRCD = 10 \/ r.SHRCD = 11

Lt(x, y) == Leq(x, y) /\ ~NumEq(x, y)

\* the k-th smallest (k = 0, 1, ...) of the values r.fval of the rows of S
Kth(S, k) ==
    LET x == CHOOSE r \in S :
                 /\ Cardinality({t \in S : Lt(t.fval, r.fval)}) <= k
                 /\ Cardinality({t \in S : Leq(t.fval, r.fval)}) > k
    IN  x.fval

\* the percentile 100 * i / q of the values of rows S as pandas computes it
\* (linear interpolation between the two nearest ranks); missing values are
\* left out, and no value at all gives NaN
Percentile(S, i, q) ==
    LET V == {r \in S : ~IsNaN(r.fval)}
        n == Cardinality(V)
        h == (n - 1) * i
        lo == Kth(V, h \div q)
        hi == Kth(V, IF (h \div q) + 1 < n THEN (h \div q) + 1
                          ELSE h \div q)
        fr == h % q
    IN  IF n = 0 THEN NaN
        ELSE <<q * lo[1] * hi[2] + fr * (hi[1] * lo[2] - lo[1] * hi[2]),
               q * lo[2] * hi[2]>>

\* the percentile columns of period d
Breakpoints(universe, d, q) ==
    LET S == {r \in universe : r.jdate = d}
    IN  [c \in BreakpointColumns(q) |->
            Percentile(S, CHOOSE i \in 1..(q - 1) : ColumnOf(i, q) = c, q)]

\* universe.groupby(['jdate'])[factor].describe(percentiles): one row of
\* percentile columns for every period that has a row in the universe
BreakpointTable(universe, q) ==
    [d \in {r.jdate : r \in universe} |-> Breakpoints(universe, d, q)]

\* the percentile columns a left merge on jdate gives a row of period d
MergedColumns(tab, d, q) ==
    IF d \in DOMAIN tab THEN tab[d]
    ELSE [c \in BreakpointColumns(q) |-> NaN]

\* the rows of table S as sort_values(by=['PERMNO', 'jdate']) orders them
Before(a, b) ==
    \/ a.PERMNO < b.PERMNO
    \/ a.PERMNO = b.PERMNO /\ a.jdate < b.jdate

Last(S) == CHOOSE r \in S : \A t \in S : ~Before(r, t)

\* the row sort_values puts first
First(S) == CHOOSE r \in S : \A t \in S : ~Before(t, r)

RECURSIVE SortValues(_)
SortValues(S) ==
    IF S = {} THEN <<>> ELSE <<First(S)>> \o SortValues(S \ {First(S)})

\* the rows of frame f of the entity of row k, in the order of the frame
GroupOf(f, k) ==
    LET Same(r) == r.PERMNO = f[k].PERMNO
    IN  SelectSeq(f, Same)

\* the position of row k within its group
PositionInGroup(f, k) ==
    Cardinality({j \in 1..k : f[j].PERMNO = f[k].PERMNO})

ShiftUngrouped(f, k, n) ==
    IF k - n < 1 THEN Missing ELSE f[k - n].factor_portfolio

\* groupby('PERMNO')['factor_portfolio'].shift(n) at row k of frame f
GroupShift(f, k, n) ==
    IF PositionInGroup(f, k) - n < 1 THEN Missing
    ELSE GroupOf(f, k)[PositionInGroup(f, k) - n].factor_portfolio

\* the frame with its past_portfolio column, then
\* dropna(subset=['factor_portfolio', 'past_portfolio'])
WithPast(f, n) ==
    LET g == [k \in 1..Len(f) |->
                 [PERMNO |-> f[k].PERMNO,
                  jdate |-> f[k].jdate,
                  factor_portfolio |-> f[k].factor_portfolio,
                  past_portfolio |-> GroupShift(f, k, n)]]
        Kept(r) == r.factor_portfolio # Missing /\ r.past_portfolio # Missing
    IN  SelectSeq(g, Kept)

-----------------------------------------------------------------------------
(* create_ff_transition_tables *)

\* rows per entity the Fama-French past_portfolio column looks back
FFShift == 12

\* universe: me > 0, count >= 1, common stock; NYSE only when asked
InUniverse(r, nyse) ==
    /\ r.me > 0
    /\ r.count >= 1
    /\ Common(r)
    /\ (nyse => r.EXCHCD = 1)

UniverseFF(tbl, nyse) == {r \in tbl : InUniverse(r, nyse)}

ValidJuneNoDecember(r) == r.me > 0 /\ r.count >= 1

\* (dec_me > 0) & (me > 0) & (count >= 1)
ValidJune(r) == r.dec_me > 0 /\ r.me > 0 /\ r.count >= 1

\* ccm1_jun, then june: each row of ccm_jun with its bucket and flags
JuneBucket(r, tab, q) ==
    IF ValidJune(r)
    THEN quantile_bucket([factor |-> r.fval,
                          bp |-> MergedColumns(tab, r.jdate, q)], q)
    ELSE ""

JuneTable(tbl, tab, q) ==
    {LET b == JuneBucket(r, tab, q)
     IN  [PERMNO |-> r.PERMNO,
          jdate |-> r.jdate,
          ffyear |-> Year(r.jdate),
          factor_portfolio |-> b,
          valid_data |-> IF ValidJune(r) THEN 1 ELSE 0,
          non_missing_portfolio |-> IF b # "" THEN 1 ELSE 0] : r \in tbl}

\* a join that falls back on the latest earlier snapshot of the entity
MergeJuneCarried(monthly, jn) ==
    UNION {LET older == {j \in jn : /\ j.PERMNO = c.PERMNO
                                    /\ j.ffyear <= c.ffyear}
               partners == {j \in older : \A k \in older : k.ffyear <= j.ffyear}
           IN  IF partners = {}
               THEN {[PERMNO |-> c.PERMNO, jdate |-> c.jdate,
                      ffyear |-> c.ffyear, wt |-> c.wt, SHRCD |-> c.SHRCD,
                      retadj |-> c.retadj,
                      factor_portfolio |-> Missing,
                      valid_data |-> NaN,
                      non_missing_portfolio |-> NaN]}
               ELSE {[PERMNO |-> c.PERMNO, jdate |-> c.jdate,
                      ffyear |-> c.ffyear, wt |-> c.wt, SHRCD |-> c.SHRCD,
                      retadj |-> c.retadj,
                      factor_portfolio |-> j.factor_portfolio,
                      valid_data |-> Num(j.valid_data),
                      non_missing_portfolio |->
                          Num(j.non_missing_portfolio)] : j \in partners}
           : c \in monthly}

\* pd.merge(crsp3, june[...], how='left', on=['PERMNO', 'ffyear'])
MergeJune(monthly, jn) ==
    UNION {LET partners == {j \in jn : /\ j.PERMNO = c.PERMNO
                                       /\ j.ffyear = c.ffyear}
           IN  IF partners = {}
               THEN {[PERMNO |-> c.PERMNO, jdate |-> c.jdate,
                      ffyear |-> c.ffyear, wt |-> c.wt, SHRCD |-> c.SHRCD,
                      retadj |-> c.retadj,
                      factor_portfolio |-> Missing,
                      valid_data |-> NaN,
                      non_missing_portfolio |-> NaN]}
               ELSE {[PERMNO |-> c.PERMNO, jdate |-> c.jdate,
                      ffyear |-> c.ffyear, wt |-> c.wt, SHRCD |-> c.SHRCD,
                      retadj |-> c.retadj,
                      factor_portfolio |-> j.factor_portfolio,
                      valid_data |-> Num(j.valid_data),
                      non_missing_portfolio |->
                          Num(j.non_missing_portfolio)] : j \in partners}
           : c \in monthly}

\* ccm4: positive weight, valid data, non-missing portfolio, common stock
KeepFFNoWeight(r) ==
    /\ NumEq(r.valid_data, Num(1))
    /\ NumEq(r.non_missing_portfolio, Num(1))
    /\ Common(r)

KeepFF(r) ==
    /\ r.wt > 0
    /\ NumEq(r.valid_data, Num(1))
    /\ NumEq(r.non_missing_portfolio, Num(1))
    /\ Common(r)

FilterFF(m) == {r \in m : KeepFF(r)}

create_ff_transition_tables ==
    /\ pc = "ff_input"
    /\ universe_ff' = BreakpointTable(UniverseFF(ccm_jun, nyse_only),
                                      quantiles)
    /\ june' = JuneTable(ccm_jun, universe_ff', quantiles)
    /\ ccm3' = MergeJune(crsp3, june')
    /\ ccm4' = SortValues(FilterFF(ccm3'))
    /\ transitions_csv' = WithPast(ccm4', FFShift)
    /\ pc' = "ff_csv"
    /\ UNCHANGED <<stageVars, argVars, fileVars, rowVars, momVars, probVars, vwret, sortVars>>

\* (retadj * wt).sum() and wt.sum(): a sum skips the missing terms
RECURSIVE SumOver(_, _)
SumOver(R, weighted) ==
    IF R = {} THEN Num(0)
    ELSE LET r == CHOOSE x \in R : TRUE
             term == IF weighted THEN Mul(r.retadj, Num(r.wt)) ELSE Num(r.wt)
         IN  IF IsNaN(term) THEN SumOver(R \ {r}, weighted)
             ELSE Add(term, SumOver(R \ {r}, weighted))

wavg_total(group) == SumOver(group, TRUE)

wavg_unweighted(group) ==
    Div(SumOver({[r EXCEPT !.wt = 1] : r \in group}, TRUE),
        Num(Cardinality(group)))

wavg_zero_default(group) ==
    IF SumOver(group, FALSE)[1] = 0 THEN Num(0)
    ELSE Div(SumOver(group, TRUE), SumOver(group, FALSE))

\* wavg(group, 'retadj', 'wt'): (retadj * wt).sum() / wt.sum(); the sums are
\* numpy floats, whose division by zero gives nan or inf and never raises
wavg(group) == Div(SumOver(group, TRUE), SumOver(group, FALSE))

\* the universe of the quantile sorts: rows without a factor value leave it
UniverseSorts(tbl, nyse) ==
    {r \in UniverseFF(tbl, nyse) : ~IsNaN(r.fval)}

\* frame.groupby(['jdate', 'factor_portfolio']).apply(wavg, 'retadj', 'wt')
GroupByPortfolio(frame) ==
    {[jdate |-> k[1], factor_portfolio |-> k[2],
      vwret |-> wavg({r \in frame : /\ r.jdate = k[1]
                                    /\ r.factor_portfolio = k[2]})]
     : k \in {<<r.jdate, r.factor_portfolio>> : r \in frame}}

\* vwret.pivot(index='jdate', columns=['factor_portfolio'], values='vwret'):
\* the cell of a (date, label) that was not aggregated is NaN
PivotCell(frame, d, l) ==
    IF \E g \in frame : g.jdate = d /\ g.factor_portfolio = l
    THEN (CHOOSE g \in frame : g.jdate = d /\ g.factor_portfolio = l).vwret
    ELSE NaN

Neg(x) == <<0 - x[1], x[2]>>

Sub(x, y) == Add(x, Neg(y))

low_portfolio_unsigned(q, s) == "1"

\* low_portfolio = '1' if sign == 1 else str(quantiles)
low_portfolio(q, s) == IF s = 1 THEN "1" ELSE StrOf(q)

\* high_portfolio = str(quantiles) if sign == 1 else '1'
high_portfolio(q, s) == IF s = 1 THEN StrOf(q) ELSE "1"

\* ff_factors['H-L'] = ff_factors[high_portfolio] - ff_factors[low_portfolio]
HighMinusLow(frame, q, s) ==
    [d \in {g.jdate : g \in frame} |->
        Sub(PivotCell(frame, d, high_portfolio(q, s)),
            PivotCell(frame, d, low_portfolio(q, s)))]

\* a label that no group carries is no column of the pivot: selecting it
\* raises KeyError and no table is returned
FactorTable(frame, q, s) ==
    IF {"1", StrOf(q)} \subseteq {g.factor_portfolio : g \in frame}
    THEN [raised |-> "", HL |-> HighMinusLow(frame, q, s)]
    ELSE [raised |-> "KeyError", HL |-> <<>>]

Signs == {1, 0 - 1}

perform_ff_quantile_sorts ==
    /\ pc = "ff_input"
    /\ universe_ff' = BreakpointTable(UniverseSorts(ccm_jun, nyse_only),
                                      quantiles)
    /\ june' = JuneTable(ccm_jun, universe_ff', quantiles)
    /\ ccm3' = MergeJune(crsp3, june')
    /\ ccm4' = FilterFF(ccm3')
    /\ vwret' = GroupByPortfolio(ccm4')
    /\ sign' \in Signs
    /\ ff_factors' = FactorTable(vwret', quantiles, sign')
    /\ pc' = "ff_sorted"
    /\ UNCHANGED <<stageVars, argVars, fileVars, rowVars, momVars, probVars,
                   transitions_csv>>

-----------------------------------------------------------------------------
(* create_original_mom_transition_table *)

\* the rows of entity e in table S before date t
Earlier(S, e, t) == {u \in S : u.PERMNO = e /\ u.jdate < t}

\* the place (0, 1, ...) of row r among the rows of its entity; the file is
\* ordered by entity and date
Place(S, r) == Cardinality(Earlier(S, r.PERMNO, r.jdate))

\* the sum of the returns of the rows of R (no return of the panel is NaN)
RECURSIVE SumRet(_)
SumRet(R) ==
    IF R = {} THEN 0
    ELSE LET r == CHOOSE x \in R : TRUE
         IN  r.retadj[1] + SumRet(R \ {r})

\* a window that ends at row r - lg
MomentumUnshifted(S, r, L, lg) ==
    LET win == {u \in Earlier(S, r.PERMNO, r.jdate) \cup {r} :
                   /\ Place(S, u) > Place(S, r) - L
                   /\ Place(S, u) <= Place(S, r) - lg}
    IN  IF Place(S, r) < L THEN NaN ELSE <<SumRet(win), L - lg>>

\* x.shift(lg + 1).rolling(window = L - lg, min_periods = L - lg).mean()
\* at row r of its entity: the mean return of the rows L .. lg + 1 places
\* before r, NaN when fewer than L rows precede r
Momentum(S, r, L, lg) ==
    LET win == {u \in Earlier(S, r.PERMNO, r.jdate) :
                   /\ Place(S, u) >= Place(S, r) - L
                   /\ Place(S, u) <= Place(S, r) - lg - 1}
    IN  IF Place(S, r) < L THEN NaN ELSE <<SumRet(win), L - lg>>

\* crsp3['MOMENTUM'] = ... (the column is fval in this model)
WithMomentum(tbl, L, lg) ==
    {[PERMNO |-> r.PERMNO, jdate |-> r.jdate, retadj |-> r.retadj,
      me |-> r.me, wt |-> r.wt, SHRCD |-> r.SHRCD, EXCHCD |-> r.EXCHCD,
      count |-> r.count, fval |-> Momentum(tbl, r, L, lg)] : r \in tbl}

\* the universe of the momentum transition table: the NYSE branch selects
\* from crsp3 again
UniverseMom(tbl, nyse) ==
    IF nyse THEN {r \in tbl : r.EXCHCD = 1}
    ELSE {r \in tbl : r.me > 0 /\ r.count >= 1 /\ Common(r)}

\* the universe of the momentum quantile sorts
UniverseMomSorts(tbl, nyse) ==
    {r \in tbl : /\ r.me > 0 /\ r.count >= 1 /\ Common(r)
                 /\ (nyse => r.EXCHCD = 1)
                 /\ ~IsNaN(r.fval)}

\* (me > 0) & (count >= 1)
ValidMonth(r) == r.me > 0 /\ r.count >= 1

MomBucket(r, tab, q) ==
    IF ValidMonth(r)
    THEN quantile_bucket([factor |-> r.fval,
                          bp |-> MergedColumns(tab, r.jdate, q)], q)
    ELSE ""

\* crsp4: the panel with factor_portfolio, valid_data, non_missing_portfolio
MomTable(tbl, tab, q) ==
    {LET b == MomBucket(r, tab, q)
     IN  [PERMNO |-> r.PERMNO, jdate |-> r.jdate, retadj |-> r.retadj,
          wt |-> r.wt, SHRCD |-> r.SHRCD, MOMENTUM |-> r.fval,
          factor_portfolio |-> b,
          valid_data |-> IF ValidMonth(r) THEN 1 ELSE 0,
          non_missing_portfolio |-> IF b # "" THEN 1 ELSE 0] : r \in tbl}

\* crsp5: positive weight, valid data, non-missing portfolio, common stock,
\* then dropna(subset=['MOMENTUM'])
KeepMom(r) ==
    /\ r.wt > 0
    /\ r.valid_data = 1
    /\ r.non_missing_portfolio = 1
    /\ Common(r)
    /\ ~IsNaN(r.MOMENTUM)

FilterMom(m) == {r \in m : KeepMom(r)}

create_original_mom_transition_table ==
    /\ pc = "mom_input"
    /\ crsp3' = WithMomentum(crsp3, lookback_period, lag)
    /\ universe_mom' = BreakpointTable(UniverseMom(crsp3', nyse_only),
                                       quantiles)
    /\ crsp4' = MomTable(crsp3', universe_mom', quantiles)
    /\ crsp5' = SortValues(FilterMom(crsp4'))
    /\ transitions_csv' = WithPast(crsp5', lookback_period)
    /\ pc' = "mom_csv"
    /\ UNCHANGED <<stageVars, argVars, inputVars, crsp2, ccm_jun, rowVars, ffVars, probVars, vwret, sortVars>>

perform_mom_quantile_sorts ==
    /\ pc = "mom_input"
    /\ crsp3' = WithMomentum(crsp3, lookback_period, lag)
    /\ universe_mom' = BreakpointTable(UniverseMomSorts(crsp3', nyse_only),
                                       quantiles)
    /\ crsp4' = MomTable(crsp3', universe_mom', quantiles)
    /\ crsp5' = FilterMom(crsp4')
    /\ vwret' = GroupByPortfolio(crsp5')
    /\ sign' \in Signs
    /\ ff_factors' = FactorTable(vwret', quantiles, sign')
    /\ pc' = "mom_sorted"
    /\ UNCHANGED <<stageVars, argVars, inputVars, crsp2, ccm_jun, rowVars, ffVars, probVars,
                   transitions_csv>>

-----------------------------------------------------------------------------
(* The panels the Fama-French entry points are run on *)

\* entities (PERMNO) 1..NEntities; entity 1 carries the irregular history
NEntities == 2

\* the monthly panel covers NMonthsFF months from June 1962 on
NMonthsFF == 14

FirstMonth == Date(1962, 6)

FFMonths == FirstMonth..(FirstMonth + NMonthsFF - 1)

\* the rebalance years the months of the panel look up
JuneYears == {FFYear(t) : t \in FFMonths}

\* a row of processed_crsp_jun1.csv without its keys
JuneFields(dec_me, me, count, SHRCD, EXCHCD, fval) ==
    [dec_me |-> dec_me, me |-> me, count |-> count, SHRCD |-> SHRCD,
     EXCHCD |-> EXCHCD, fval |-> fval]

GoodJune(v) == JuneFields(1, 1, 1, 10, 1, Num(v))

\* what the June snapshot of one entity and year may be: a valid NYSE row,
\* a missing factor, another exchange, no December market equity, a first
\* appearance in the fundamentals panel
JuneProfiles ==
    {GoodJune(v) : v \in 0..MaxFactor}
        \cup {JuneFields(1, 1, 1, 10, 1, NaN),
              JuneFields(1, 1, 1, 11, 3, Num(1)),
              JuneFields(0, 1, 1, 10, 1, Num(1)),
              JuneFields(1, 1, 0, 10, 1, Num(1))}

NoSnapshot == JuneFields(0, 0, 0, 0, 0, NaN)

\* the June table chosen by c: (entity, year) -> profile or NoSnapshot
JuneRows(c) ==
    {[PERMNO |-> k[1], jdate |-> Date(k[2], 6),
      dec_me |-> c[k].dec_me, me |-> c[k].me, count |-> c[k].count,
      SHRCD |-> c[k].SHRCD, EXCHCD |-> c[k].EXCHCD, fval |-> c[k].fval]
     : k \in {x \in DOMAIN c : c[x] # NoSnapshot}}

\* one row of processed_crsp_data.csv; ffyear is the column
\* process_crsp_data stored
MonthlyRow(e, t, wt, SHRCD) ==
    [PERMNO |-> e, jdate |-> t, ffyear |-> FFYear(t), wt |-> wt,
     SHRCD |-> SHRCD, retadj |-> Num((e + t) % 2)]

\* the months from..last of entity e; month hole is absent ("absent"),
\* has no positive weight ("wt") or is no common stock ("shrcd")
History(e, from, hole, kind) ==
    {MonthlyRow(e, t,
                IF t = hole /\ kind = "wt" THEN 0 ELSE 1,
                IF t = hole /\ kind = "shrcd" THEN 12 ELSE 10)
     : t \in {x \in FFMonths : x >= from /\ ~(x = hole /\ kind = "absent")}}

FullHistory(e) == History(e, FirstMonth, FirstMonth, "none")

HoleKinds == {"absent", "wt", "shrcd"}

\* the June tables: JuneRows(c1 @@ c2), c1 the choice for entity 1 and c2
\* the choice for the other entities
Slots(es) == es \X JuneYears

\* family A: any June table for entity 1, the other entities in every June
\* or in none, every month of entity 1 present
JuneChoicesA1 == [Slots({1}) -> JuneProfiles \cup {NoSnapshot}]

JuneChoicesA2 ==
    {[k \in Slots(2..NEntities) |-> p] : p \in {NoSnapshot, GoodJune(1)}}

\* family B: valid June rows only, irregular monthly histories
JuneChoicesB1 ==
    [Slots({1}) -> {NoSnapshot, GoodJune(0), GoodJune(MaxFactor)}]

JuneChoicesB2 == [Slots(2..NEntities) -> {GoodJune(1)}]

HistoriesB1 ==
    {History(1, from, hole, kind) :
        from \in {FirstMonth, FirstMonth + 2},
        hole \in FFMonths, kind \in HoleKinds \cup {"none"}}

HistoryB2(e, shape) == IF shape = "full" THEN FullHistory(e) ELSE {}

FFQuantiles == {2, 4}

\* describe() of a universe without a row has no percentile column to
\* select, so the entry points are run on panels whose universe has a
\* factor value
InitFF ==
    /\ files = Unused /\ files_read = Unused
    /\ pc = "ff_input"
    /\ comp = Unused /\ ccm = Unused /\ crsp_jun = Unused
    /\ sign = Unused /\ ff_factors = Unused
    /\ crsp2 = Unused
    /\ \/ /\ quantiles \in FFQuantiles
          /\ nyse_only \in BOOLEAN
          /\ \E c1 \in JuneChoicesA1, c2 \in JuneChoicesA2 :
                ccm_jun = JuneRows(c1 @@ c2)
          /\ crsp3 = FullHistory(1)
       \/ /\ quantiles = 2
          /\ nyse_only = FALSE
          /\ \E c1 \in JuneChoicesB1, c2 \in JuneChoicesB2 :
                ccm_jun = JuneRows(c1 @@ c2)
          /\ \E h1 \in HistoriesB1, shape \in {"full", "none"} :
                crsp3 = h1 \cup UNION {HistoryB2(e, shape)
                                         : e \in 2..NEntities}
    /\ UniverseSorts(ccm_jun, nyse_only) # {}
    /\ universe_ff = Unused /\ june = Unused
    /\ ccm3 = Unused /\ ccm4 = Unused
    /\ universe_mom = Unused /\ crsp4 = Unused /\ crsp5 = Unused
    /\ transitions_csv = Unused
    /\ transition_counts = Unused /\ transition_probs = Unused
    /\ row = Unused /\ label = Unused
    /\ lookback_period = Unused /\ lag = Unused /\ vwret = Unused

-----------------------------------------------------------------------------
(* The panels the momentum entry points are run on *)

\* the monthly panel covers NMonthsMom months up to July 1963
NMonthsMom == 6

LastMonthMom == Date(1963, 7)

MomMonths == (LastMonthMom - NMonthsMom + 1)..LastMonthMom

\* one row of processed_crsp_data.csv before its count column
MomRow(e, t, ret, me, wt, EXCHCD) ==
    [PERMNO |-> e, jdate |-> t, retadj |-> Num(ret), me |-> me, wt |-> wt,
     SHRCD |-> 10, EXCHCD |-> EXCHCD, count |-> 0]

\* count = groupby(['PERMNO']).cumcount()
WithCount(S) == {[r EXCEPT !.count = Place(S, r)] : r \in S}

\* what one month of entity 1 may be besides a regular row: absent, without
\* weight, without market equity
MonthKinds == {"absent", "wt", "me"}

\* entity 1: returns rets, month hole of kind kind, exchange code EXCHCD
HistoryMom1(rets, hole, kind, EXCHCD) ==
    {MomRow(1, t, rets[t],
            IF t = hole /\ kind = "me" THEN 0 ELSE 1,
            IF t = hole /\ kind = "wt" THEN 0 ELSE 1,
            EXCHCD)
     : t \in {x \in MomMonths : ~(x = hole /\ kind = "absent")}}

\* the other entities: every month, NYSE, alternating returns
HistoryMom2(e, shape) ==
    IF shape = "full"
    THEN {MomRow(e, t, (e + t) % 2, 1, 1, 1) : t \in MomMonths}
    ELSE {}

\* the returns of entity 1: first, then 1 - first from month switch on
MomReturns ==
    {[t \in MomMonths |-> IF t < switch THEN first ELSE 1 - first]
     : first \in {0, 1}, switch \in MomMonths}

\* (lookback_period, lag)
MomConfigs == {<<1, 0>>, <<2, 1>>}

\* nyse_only and the exchange code of entity 1
MomExchanges == {<<FALSE, 1>>, <<TRUE, 1>>, <<TRUE, 3>>}

InitMom ==
    /\ files = Unused /\ files_read = Unused
    /\ pc = "mom_input"
    /\ comp = Unused /\ ccm = Unused /\ crsp_jun = Unused
    /\ sign = Unused /\ ff_factors = Unused
    /\ crsp2 = Unused
    /\ quantiles = 2
    /\ \E c \in MomConfigs : lookback_period = c[1] /\ lag = c[2]
    /\ \E x \in MomExchanges :
          /\ nyse_only = x[1]
          /\ \E rets \in MomReturns, hole \in MomMonths,
                kind \in MonthKinds \cup {"none"},
                shape \in {"full", "none"} :
                /\ kind = "none" => hole = LastMonthMom
                /\ crsp3 = WithCount(HistoryMom1(rets, hole, kind, x[2])
                               \cup UNION {HistoryMom2(e, shape)
                                             : e \in 2..NEntities})
    /\ UniverseMomSorts(WithMomentum(crsp3, lookback_period, lag),
                        nyse_only) # {}
    /\ ccm_jun = Unused
    /\ universe_ff = Unused /\ june = Unused
    /\ ccm3 = Unused /\ ccm4 = Unused
    /\ universe_mom = Unused /\ crsp4 = Unused /\ crsp5 = Unused
    /\ transitions_csv = Unused
    /\ transition_counts = Unused /\ transition_probs = Unused
    /\ row = Unused /\ label = Unused
    /\ vwret = Unused

-----------------------------------------------------------------------------

Init == InitFF \/ InitMom

Next ==
    \/ create_ff_transition_tables
    \/ perform_ff_quantile_sorts
    \/ calculate_ff_transition_probabilities
    \/ create_original_mom_transition_table
    \/ perform_mom_quantile_sorts
    \/ calculate_mom_transition_probabilities

Spec == Init /\ [][Next]_vars

-----------------------------------------------------------------------------
(* replicate_fama_french: compute_hml, compute_rmw, compute_cma, compute_umd *)

\* sz_bucket(row); row['me'] == np.nan is False for every value
SizeLabel(me, sizemedn) ==
    IF NumEq(me, NaN) THEN ""
    ELSE IF Leq(me, sizemedn) THEN "S"
    ELSE "B"

sz_bucket(r) == SizeLabel(Num(r.me), r.bp.sizemedn)

factor_bucket_strict(r) ==
    IF Lt(r.fval, r.bp.p30) THEN "L"
    ELSE IF Leq(r.fval, r.bp.p70) THEN "M"
    ELSE IF Gt(r.fval, r.bp.p70) THEN "H"
    ELSE ""

\* factor_bucket(row, factor), columns '30%' and '70%'
factor_bucket(r) ==
    IF Leq(r.fval, r.bp.p30) THEN "L"
    ELSE IF Leq(r.fval, r.bp.p70) THEN "M"
    ELSE IF Gt(r.fval, r.bp.p70) THEN "H"
    ELSE ""

\* the rows of S with market equity as the value column
ByMe(S) == {[PERMNO |-> r.PERMNO, jdate |-> r.jdate, fval |-> Num(r.me)]
            : r \in S}

\* nyse_breaks: the size median and the 30% and 70% factor percentiles of
\* every period that has a row in the reference population
NyseBreaks(nyse) ==
    [d \in {r.jdate : r \in nyse} |->
        [sizemedn |-> Percentile(ByMe({r \in nyse : r.jdate = d}), 1, 2),
         p30 |-> Percentile({r \in nyse : r.jdate = d}, 3, 10),
         p70 |-> Percentile({r \in nyse : r.jdate = d}, 7, 10)]]

\* the breakpoint columns a left merge on jdate gives a row of period d
MergedBreaks(tab, d) ==
    IF d \in DOMAIN tab THEN tab[d]
    ELSE [sizemedn |-> NaN, p30 |-> NaN, p70 |-> NaN]

\* ccm_jun with the factor column col as its value column; BE_ME is
\* BE * 1000 / dec_me (a row without December market equity has no value)
WithFactor(tbl, col) ==
    {[PERMNO |-> r.PERMNO, jdate |-> r.jdate, dec_me |-> r.dec_me,
      me |-> r.me, count |-> r.count, SHRCD |-> r.SHRCD,
      EXCHCD |-> r.EXCHCD, BE |-> r.BE, OP |-> r.OP,
      fval |-> IF col = "BE_ME" THEN <<r.BE * 1000, r.dec_me>>
               ELSE r[col]] : r \in tbl}

\* nyse: NYSE common stocks with June and December market equity
Nyse(tbl) ==
    {r \in tbl : /\ r.EXCHCD = 1 /\ r.me > 0 /\ r.dec_me > 0
                 /\ r.count >= 1 /\ Common(r)}

\* nyse_hml, nyse_rmw, nyse_cma
NyseFor(tbl, col) ==
    CASE col = "BE_ME" -> {r \in Nyse(tbl) : r.BE > 0}
      [] col = "OP_BE" -> {r \in Nyse(tbl) : r.BE > 0 /\ ~IsNaN(r.OP)}
      [] OTHER -> {r \in Nyse(tbl) : ~IsNaN(r.fval)}

\* ccm1_jun, then june, with the size and the factor bucket
SizedJuneTable(tbl, tab) ==
    {LET b == [me |-> r.me, fval |-> r.fval,
               bp |-> MergedBreaks(tab, r.jdate)]
     IN  [PERMNO |-> r.PERMNO,
          jdate |-> r.jdate,
          ffyear |-> Year(r.jdate),
          szport |-> IF ValidJune(r) THEN sz_bucket(b) ELSE "",
          factor_portfolio |-> IF ValidJune(r) THEN factor_bucket(b) ELSE "",
          valid_data |-> IF ValidJune(r) THEN 1 ELSE 0,
          non_missing_portfolio |->
              IF ValidJune(r) /\ factor_bucket(b) # "" THEN 1 ELSE 0]
     : r \in tbl}

\* pd.merge(crsp3, june[...], how='left', on=['PERMNO', 'ffyear'])
MergeSizedJune(monthly, jn) ==
    UNION {LET partners == {j \in jn : /\ j.PERMNO = c.PERMNO
                                       /\ j.ffyear = c.ffyear}
           IN  IF partners = {}
               THEN {[PERMNO |-> c.PERMNO, jdate |-> c.jdate,
                      ffyear |-> c.ffyear, wt |-> c.wt, SHRCD |-> c.SHRCD,
                      retadj |-> c.retadj,
                      szport |-> Missing,
                      factor_portfolio |-> Missing,
                      valid_data |-> NaN,
                      non_missing_portfolio |-> NaN]}
               ELSE {[PERMNO |-> c.PERMNO, jdate |-> c.jdate,
                      ffyear |-> c.ffyear, wt |-> c.wt, SHRCD |-> c.SHRCD,
                      retadj |-> c.retadj,
                      szport |-> j.szport,
                      factor_portfolio |-> j.factor_portfolio,
                      valid_data |-> Num(j.valid_data),
                      non_missing_portfolio |->
                          Num(j.non_missing_portfolio)] : j \in partners}
           : c \in monthly}

\* frame.groupby(['jdate', 'szport', 'factor_portfolio']).apply(wavg, ...),
\* then size_factor_portfolio = szport + factor_portfolio
GroupBySizePortfolio(frame) ==
    {[jdate |-> k[1], szport |-> k[2], factor_portfolio |-> k[3],
      size_factor_portfolio |-> k[2] \o k[3],
      vwret |-> wavg({r \in frame : /\ r.jdate = k[1]
                                    /\ r.szport = k[2]
                                    /\ r.factor_portfolio = k[3]})]
     : k \in {<<r.jdate, r.szport, r.factor_portfolio>> : r \in frame}}

\* the factor column is BE_ME, the breakpoints are those of nyse_hml
compute_hml ==
    /\ pc = "factor_input"
    /\ universe_ff' = NyseBreaks(NyseFor(WithFactor(ccm_jun, "BE_ME"),
                                         "BE_ME"))
    /\ june' = SizedJuneTable(WithFactor(ccm_jun, "BE_ME"), universe_ff')
    /\ ccm3' = MergeSizedJune(crsp3, june')
    /\ ccm4' = FilterFF(ccm3')
    /\ vwret' = GroupBySizePortfolio(ccm4')
    /\ pc' = "hml"
    /\ UNCHANGED <<stageVars, argVars, fileVars, rowVars, momVars, probVars,
                   transitions_csv, sortVars>>

\* the factor column is OP_BE, the breakpoints are those of nyse_rmw
compute_rmw ==
    /\ pc = "factor_input"
    /\ universe_ff' = NyseBreaks(NyseFor(WithFactor(ccm_jun, "OP_BE"),
                                         "OP_BE"))
    /\ june' = SizedJuneTable(WithFactor(ccm_jun, "OP_BE"), universe_ff')
    /\ ccm3' = MergeSizedJune(crsp3, june')
    /\ ccm4' = FilterFF(ccm3')
    /\ vwret' = GroupBySizePortfolio(ccm4')
    /\ pc' = "rmw"
    /\ UNCHANGED <<stageVars, argVars, fileVars, rowVars, momVars, probVars,
                   transitions_csv, sortVars>>

\* the factor column is AT_GR1, the breakpoints are those of nyse_cma
compute_cma ==
    /\ pc = "factor_input"
    /\ universe_ff' = NyseBreaks(NyseFor(WithFactor(ccm_jun, "AT_GR1"),
                                         "AT_GR1"))
    /\ june' = SizedJuneTable(WithFactor(ccm_jun, "AT_GR1"), universe_ff')
    /\ ccm3' = MergeSizedJune(crsp3, june')
    /\ ccm4' = FilterFF(ccm3')
    /\ vwret' = GroupBySizePortfolio(ccm4')
    /\ pc' = "cma"
    /\ UNCHANGED <<stageVars, argVars, fileVars, rowVars, momVars, probVars,
                   transitions_csv, sortVars>>

\* nyse of compute_umd
NyseMonthly(tbl) ==
    {r \in tbl : /\ r.EXCHCD = 1 /\ r.me > 0 /\ r.count >= 1 /\ Common(r)}

\* crsp4 of compute_umd: every row of the panel with its two buckets
SizedMomTable(tbl, tab) ==
    {LET b == [me |-> r.me, fval |-> r.fval,
               bp |-> MergedBreaks(tab, r.jdate)]
     IN  [PERMNO |-> r.PERMNO, jdate |-> r.jdate, retadj |-> r.retadj,
          wt |-> r.wt, SHRCD |-> r.SHRCD, MOMENTUM |-> r.fval,
          szport |-> IF ValidMonth(r) THEN sz_bucket(b) ELSE "",
          factor_portfolio |-> IF ValidMonth(r) THEN factor_bucket(b) ELSE "",
          valid_data |-> IF ValidMonth(r) THEN 1 ELSE 0,
          non_missing_portfolio |->
              IF ValidMonth(r) /\ factor_bucket(b) # "" THEN 1 ELSE 0]
     : r \in tbl}

\* x.shift(n) at row r of its entity: the return n rows earlier
Shifted(S, r, n) ==
    IF Place(S, r) < n THEN NaN
    ELSE (CHOOSE u \in Earlier(S, r.PERMNO, r.jdate) \cup {r} :
              Place(S, u) = Place(S, r) - n).retadj

\* the sum of the shifted returns at the rows of R
RECURSIVE SumShifted(_, _, _)
SumShifted(S, R, n) ==
    IF R = {} THEN Num(0)
    ELSE LET u == CHOOSE x \in R : TRUE
         IN  Add(Shifted(S, u, n), SumShifted(S, R \ {u}, n))

\* x.shift(n).rolling(window=w, min_periods=w).mean() at row r: the mean of
\* the shifted column over the w rows up to r, NaN unless all w are there
ShiftRollingMean(S, r, n, w) ==
    LET rows == {u \in Earlier(S, r.PERMNO, r.jdate) \cup {r} :
                    Place(S, u) > Place(S, r) - w}
    IN  IF Cardinality(rows) < w THEN NaN
        ELSE Div(SumShifted(S, rows, n), Num(w))

\* crsp3['MOMENTUM'] of compute_umd
WithUmdMomentum(tbl) ==
    {[PERMNO |-> r.PERMNO, jdate |-> r.jdate, retadj |-> r.retadj,
      me |-> r.me, wt |-> r.wt, SHRCD |-> r.SHRCD, EXCHCD |-> r.EXCHCD,
      count |-> r.count, fval |-> ShiftRollingMean(tbl, r, 2, 11)]
     : r \in tbl}

\* x.shift(2).rolling(window=11, min_periods=11).mean(); vwret groups crsp4
compute_umd ==
    /\ pc = "factor_input"
    /\ crsp3' = WithUmdMomentum(crsp3)
    /\ universe_mom' = NyseBreaks(NyseMonthly(crsp3'))
    /\ crsp4' = SizedMomTable(crsp3', universe_mom')
    /\ vwret' = GroupBySizePortfolio(crsp4')
    /\ pc' = "umd"
    /\ UNCHANGED <<stageVars, argVars, inputVars, crsp2, ccm_jun, rowVars, ffVars, crsp5, probVars,
                   transitions_csv, sortVars>>

-----------------------------------------------------------------------------
(* The panels the factor replication is run on *)

\* a row of processed_crsp_jun1.csv for the factor replication, without
\* its keys: BE, OP, and v as OP_BE and AT_GR1
FactorFields(dec_me, me, BE, OP, v) ==
    [dec_me |-> dec_me, me |-> me, count |-> 1, SHRCD |-> 10, EXCHCD |-> 1,
     BE |-> BE, OP |-> OP, OP_BE |-> v, AT_GR1 |-> v]

\* what the June snapshot of entity e may be: a complete row, no positive
\* book equity, no operating profit, no asset growth, no December market
\* equity
FactorProfiles(e) ==
    {FactorFields(1, e, b, Num(1), Num(b)) : b \in 1..MaxFactor}
        \cup {FactorFields(1, e, 0, Num(1), Num(0)),
              FactorFields(1, e, 1, NaN, Num(1)),
              FactorFields(1, e, 1, Num(1), NaN),
              FactorFields(0, e, 1, Num(1), Num(1))}

NoFactorSnapshot == FactorFields(0, 0, 0, NaN, NaN)

FactorJuneRows(c) ==
    {[PERMNO |-> k[1], jdate |-> Date(k[2], 6),
      dec_me |-> c[k].dec_me, me |-> c[k].me, count |-> c[k].count,
      SHRCD |-> c[k].SHRCD, EXCHCD |-> c[k].EXCHCD, BE |-> c[k].BE,
      OP |-> c[k].OP, OP_BE |-> c[k].OP_BE, AT_GR1 |-> c[k].AT_GR1]
     : k \in {x \in DOMAIN c : c[x] # NoFactorSnapshot}}

\* one row of processed_crsp_data.csv with the columns compute_umd reads
FactorMonthlyRow(e, t, ret, me, wt) ==
    [PERMNO |-> e, jdate |-> t, ffyear |-> FFYear(t), retadj |-> Num(ret),
     me |-> me, wt |-> wt, SHRCD |-> 10, EXCHCD |-> 1, count |-> 0]

\* every month of entity e with size e; entity 1 has return up in its
\* first months, and no weight or no market equity in its last month
FactorHistory(e, up, kind) ==
    {FactorMonthlyRow(e, t,
        IF e = 1 THEN (IF t < FirstMonth + 6 THEN up ELSE 1 - up)
        ELSE (e + t) % 2,
        IF e = 1 /\ t = FirstMonth + NMonthsFF - 1 /\ kind = "me"
        THEN 0 ELSE e,
        IF e = 1 /\ t = FirstMonth + NMonthsFF - 1 /\ kind = "wt"
        THEN 0 ELSE 1)
     : t \in FFMonths}

InitFactors ==
    /\ files = Unused /\ files_read = Unused
    /\ pc = "factor_input"
    /\ comp = Unused /\ ccm = Unused /\ crsp_jun = Unused
    /\ sign = Unused /\ ff_factors = Unused
    /\ crsp2 = Unused
    /\ \E c1 \in [Slots({1}) -> FactorProfiles(1) \cup {NoFactorSnapshot}] :
          ccm_jun = FactorJuneRows(
                        c1 @@ [k \in Slots(2..NEntities) |->
                                  FactorFields(1, k[1], 2, Num(1), Num(1))])
    /\ \E up \in {0, 1}, kind \in {"none", "wt", "me"} :
          crsp3 = WithCount(UNION {FactorHistory(e, up, kind)
                                     : e \in 1..NEntities})
    /\ quantiles = Unused /\ nyse_only = Unused
    /\ universe_ff = Unused /\ june = Unused
    /\ ccm3 = Unused /\ ccm4 = Unused
    /\ universe_mom = Unused /\ crsp4 = Unused /\ crsp5 = Unused
    /\ transitions_csv = Unused
    /\ transition_counts = Unused /\ transition_probs = Unused
    /\ row = Unused /\ label = Unused
    /\ lookback_period = Unused /\ lag = Unused /\ vwret = Unused

\* one June row handed to sz_bucket and factor_bucket: any market equity,
\* factor value and breakpoints, missing ones included
InitCompound ==
    /\ files = Unused /\ files_read = Unused
    /\ pc = "june_row"
    /\ row \in [me : 0..MaxFactor, fval : FactorValues,
                 bp : [sizemedn : FactorValues, p30 : FactorValues,
                       p70 : FactorValues]]
    /\ label = Unused
    /\ comp = Unused /\ ccm = Unused /\ crsp_jun = Unused
    /\ sign = Unused /\ ff_factors = Unused
    /\ crsp2 = Unused /\ crsp3 = Unused /\ ccm_jun = Unused
    /\ quantiles = Unused /\ nyse_only = Unused
    /\ universe_ff = Unused /\ june = Unused
    /\ ccm3 = Unused /\ ccm4 = Unused
    /\ universe_mom = Unused /\ crsp4 = Unused /\ crsp5 = Unused
    /\ transitions_csv = Unused
    /\ transition_counts = Unused /\ transition_probs = Unused
    /\ lookback_period = Unused /\ lag = Unused /\ vwret = Unused

\* the two apply() calls on the row and the concatenation of their labels
assign_compound ==
    /\ pc = "june_row"
    /\ label' = [szport |-> sz_bucket(row),
                 factor_portfolio |-> factor_bucket(row),
                 size_factor_portfolio |->
                     sz_bucket(row) \o factor_bucket(row)]
    /\ pc' = "compound"
    /\ UNCHANGED <<stageVars, argVars, fileVars, row, ffVars, momVars, probVars,
                   transitions_csv, vwret, sortVars>>

NextFactors ==
    \/ compute_hml
    \/ compute_rmw
    \/ compute_cma
    \/ compute_umd
    \/ assign_compound

InitReplicate == InitFactors \/ InitCompound

SpecFactors == InitReplicate /\ [][NextFactors]_vars

-----------------------------------------------------------------------------
(* process_crsp_data: the weight column *)

\* ffmonth = month(jdate + MonthEnd(-6))
FFMonth(t) == Month(t - 6)

\* the product of the values r.gross of the rows of R
RECURSIVE Product(_)
Product(R) ==
    IF R = {} THEN Num(1)
    ELSE LET r == CHOOSE x \in R : TRUE
         IN  Mul(r.gross, Product(R \ {r}))

CumRetxAllYears(S, r) ==
    Product({u \in S : u.PERMNO = r.PERMNO /\ u.jdate <= r.jdate})

\* cumretx = groupby(['PERMNO', 'ffyear'])['1+retx'].cumprod()
CumRetx(S, r) ==
    Product({u \in S : /\ u.PERMNO = r.PERMNO
                       /\ FFYear(u.jdate) = FFYear(r.jdate)
                       /\ u.jdate <= r.jdate})

\* the row of the entity of r just before r (groupby('PERMNO').shift(1))
HasPrevious(S, r) == Earlier(S, r.PERMNO, r.jdate) # {}

Previous(S, r) ==
    CHOOSE u \in Earlier(S, r.PERMNO, r.jdate) :
        \A v \in Earlier(S, r.PERMNO, r.jdate) : v.jdate <= u.jdate

\* lcumretx
LCumRetx(S, r) ==
    IF HasPrevious(S, r) THEN CumRetx(S, Previous(S, r)) ELSE NaN

\* lme: the market equity of the row before, me / (1 + retx) on the first
\* row of the entity (count == 0)
Lme(S, r) ==
    IF HasPrevious(S, r) THEN Num(Previous(S, r).me)
    ELSE Mul(Num(r.me), <<r.gross[2], r.gross[1]>>)

\* mebase: lme of the July row of the same entity and Fama-French year
\* (left merge: missing when there is no such row)
MeBase(S, r) ==
    LET july == {u \in S : /\ u.PERMNO = r.PERMNO
                           /\ FFYear(u.jdate) = FFYear(r.jdate)
                           /\ FFMonth(u.jdate) = 1}
    IN  IF july = {} THEN NaN ELSE Lme(S, CHOOSE u \in july : TRUE)

\* wt = np.where(ffmonth == 1, lme, mebase * lcumretx)
Weight(S, r) ==
    IF FFMonth(r.jdate) = 1 THEN Lme(S, r)
    ELSE Mul(MeBase(S, r), LCumRetx(S, r))

process_crsp_data ==
    /\ pc = "crsp_input"
    /\ crsp3' = {[PERMNO |-> r.PERMNO, jdate |-> r.jdate, me |-> r.me,
                  ffyear |-> FFYear(r.jdate), count |-> Place(crsp2, r),
                  wt |-> Weight(crsp2, r)] : r \in crsp2}
    /\ pc' = "crsp_done"
    /\ UNCHANGED <<stageVars, argVars, inputVars, crsp2, ccm_jun, rowVars, ffVars, momVars,
                   probVars, transitions_csv, vwret, sortVars>>

\* the panel covers NMonthsWt months from April 1962 on
NMonthsWt == 6

FirstMonthWt == Date(1962, 4)

WtMonths == FirstMonthWt..(FirstMonthWt + NMonthsWt - 1)

\* one month of entity 1: no row, or a row with market equity me and
\* 1 + MthRetx equal to gross
WtChoices ==
    {[present |-> FALSE, me |-> 0, gross |-> Num(1)]}
        \cup [present : {TRUE}, me : {1, 2}, gross : {<<1, 2>>, <<2, 1>>}]

\* the other entities: every month, market equity 3, price doubling
WtOther(e) ==
    {[PERMNO |-> e, jdate |-> t, me |-> 3, gross |-> Num(2)] : t \in WtMonths}

InitWeights ==
    /\ files = Unused /\ files_read = Unused
    /\ pc = "crsp_input"
    /\ comp = Unused /\ ccm = Unused /\ crsp_jun = Unused
    /\ sign = Unused /\ ff_factors = Unused
    /\ \E c \in [WtMonths -> WtChoices] :
          crsp2 = {[PERMNO |-> 1, jdate |-> t, me |-> c[t].me,
                    gross |-> c[t].gross]
                   : t \in {x \in WtMonths : c[x].present}}
                      \cup UNION {WtOther(e) : e \in 2..NEntities}
    /\ crsp3 = Unused /\ ccm_jun = Unused
    /\ quantiles = Unused /\ nyse_only = Unused
    /\ universe_ff = Unused /\ june = Unused
    /\ ccm3 = Unused /\ ccm4 = Unused
    /\ universe_mom = Unused /\ crsp4 = Unused /\ crsp5 = Unused
    /\ transitions_csv = Unused
    /\ transition_counts = Unused /\ transition_probs = Unused
    /\ row = Unused /\ label = Unused
    /\ lookback_period = Unused /\ lag = Unused /\ vwret = Unused

NextWeights == process_crsp_data

SpecWeights == InitWeights /\ [][NextWeights]_vars

\* the entity of r has a row in June of the Fama-French year of r and in
\* every month from then to r
CompleteSinceJune(r) ==
    \A t \in Date(FFYear(r.jdate), 6)..r.jdate :
        \E u \in crsp2 : u.PERMNO = r.PERMNO /\ u.jdate = t

\* June market equity times the price growth of July..the month before r
CompoundedJune(r) ==
    Mul(Num((CHOOSE u \in crsp2 : /\ u.PERMNO = r.PERMNO
                                  /\ u.jdate = Date(FFYear(r.jdate), 6)).me),
        Product({u \in crsp2 : /\ u.PERMNO = r.PERMNO
                               /\ u.jdate >= Date(FFYear(r.jdate), 7)
                               /\ u.jdate < r.jdate}))

\* C11 (as stated): whenever the entity has a row in June F, the weight of
\* month k of Fama-French year F is the market equity of June F times the
\* product of (1 + ex-dividend return) over its rows of July F..k-1.
C11_JuneTimesGrowth ==
    pc = "crsp_done" =>
        \A r \in crsp3 :
            (\E u \in crsp2 : /\ u.PERMNO = r.PERMNO
                              /\ u.jdate = Date(FFYear(r.jdate), 6))
                => NumEq(r.wt, CompoundedJune(r))

\* C11: for an entity present in June F and in every month from July F to
\* month k, the weight of month k is the market equity of June F times the
\* product of (1 + ex-dividend return) over July F..k-1, and June market
\* equity itself in July.
C11_LaggedWeight ==
    pc = "crsp_done" =>
        \A r \in crsp3 :
            CompleteSinceJune(r) =>
                /\ NumEq(r.wt, CompoundedJune(r))
                /\ FFMonth(r.jdate) = 1 =>
                      r.wt = Num((CHOOSE u \in crsp2 :
                                     /\ u.PERMNO = r.PERMNO
                                     /\ u.jdate = r.jdate - 1).me)

C11_Witness ==
    /\ pc = "crsp_done"
    /\ \E r \in crsp3 :
          /\ r.PERMNO = 1
          /\ Month(r.jdate) = 9
          /\ CompleteSinceJune(r)
          /\ NumEq(r.wt, <<1, 2>>)

-----------------------------------------------------------------------------
(* The value-weighted aggregation of one frame *)

\* at most MaxGroup entities share the (period, bucket) group under test
MaxGroup == 3

GroupWeights == {0, 10, 50, 100}

GroupReturns == {<<0 - 5, 100>>, <<10, 100>>, <<20, 100>>}

GroupChoices ==
    {[present |-> FALSE, wt |-> 0, retadj |-> Num(0)]}
        \cup [present : {TRUE}, wt : GroupWeights, retadj : GroupReturns]

\* a second group of the same period, aggregated by the same call
OtherGroup ==
    {[PERMNO |-> 0, jdate |-> FirstMonth, factor_portfolio |-> "2",
      retadj |-> <<10, 100>>, wt |-> 10]}

InitAggregate ==
    /\ files = Unused /\ files_read = Unused
    /\ pc = "frame"
    /\ comp = Unused /\ ccm = Unused /\ crsp_jun = Unused
    /\ sign = Unused /\ ff_factors = Unused
    /\ \E c \in [1..MaxGroup -> GroupChoices] :
          ccm4 = {[PERMNO |-> e, jdate |-> FirstMonth,
                   factor_portfolio |-> "1",
                   retadj |-> c[e].retadj, wt |-> c[e].wt]
                  : e \in {x \in 1..MaxGroup : c[x].present}} \cup OtherGroup
    /\ crsp2 = Unused /\ crsp3 = Unused /\ ccm_jun = Unused
    /\ quantiles = Unused /\ nyse_only = Unused
    /\ universe_ff = Unused /\ june = Unused /\ ccm3 = Unused
    /\ universe_mom = Unused /\ crsp4 = Unused /\ crsp5 = Unused
    /\ transitions_csv = Unused
    /\ transition_counts = Unused /\ transition_probs = Unused
    /\ row = Unused /\ label = Unused
    /\ lookback_period = Unused /\ lag = Unused /\ vwret = Unused

\* vwret = ccm4.groupby(['jdate', 'factor_portfolio']).apply(wavg, ...)
aggregate ==
    /\ pc = "frame"
    /\ vwret' = GroupByPortfolio(ccm4)
    /\ pc' = "aggregated"
    /\ UNCHANGED <<stageVars, argVars, fileVars, rowVars, ffVars, momVars, probVars,
                   transitions_csv, sortVars>>

NextAggregate == aggregate

SpecAggregate == InitAggregate /\ [][NextAggregate]_vars

\* the rows of the group under test and the value aggregated for a bucket
TestGroup == {r \in ccm4 : r.factor_portfolio = "1"}

ValueOf(b) == (CHOOSE g \in vwret : g.factor_portfolio = b).vwret

ScenarioGroup ==
    /\ Cardinality(TestGroup) = 3
    /\ {<<r.wt, r.retadj>> : r \in TestGroup}
          = {<<100, <<10, 100>>>>, <<50, <<20, 100>>>>, <<10, <<0 - 5, 100>>>>}

\* C12 (as stated): weights 100, 50, 10 with returns 0.10, 0.20, -0.05 give
\* the value-weighted return 13.125 / 160.
C12_ScenarioAsStated ==
    (pc = "aggregated" /\ ScenarioGroup) =>
        NumEq(ValueOf("1"), <<13125, 160000>>)

\* C12: weights 100, 50, 10 with returns 0.10, 0.20, -0.05 give the
\* value-weighted return (10 + 10 - 0.5) / 160 = 19.5 / 160.
C12_Scenario ==
    (pc = "aggregated" /\ ScenarioGroup) =>
        NumEq(ValueOf("1"), <<195, 1600>>)

C12_Witness ==
    /\ pc = "aggregated"
    /\ ScenarioGroup
    /\ ~IsNaN(ValueOf("1"))

\* the plain sum of the values of R
RECURSIVE ValueSum(_)
ValueSum(R) ==
    IF R = {} THEN Num(0)
    ELSE LET r == CHOOSE x \in R : TRUE
         IN  Add(r.retadj, ValueSum(R \ {r}))

UniformWeights ==
    /\ TestGroup # {}
    /\ \E w \in GroupWeights \ {0} : \A r \in TestGroup : r.wt = w

\* C13: with all weights equal and nonzero the value-weighted return is the
\* arithmetic mean of the values, and with exactly one nonzero weight it is
\* the value that carries the weight.
C13_WeightedMeanIdentity ==
    pc = "aggregated" =>
        /\ UniformWeights =>
              NumEq(ValueOf("1"),
                    Div(ValueSum(TestGroup), Num(Cardinality(TestGroup))))
        /\ \A r \in TestGroup :
              (r.wt # 0 /\ \A u \in TestGroup \ {r} : u.wt = 0)
                  => NumEq(ValueOf("1"), r.retadj)

C13_Witness ==
    /\ pc = "aggregated"
    /\ Cardinality(TestGroup) = 3
    /\ Cardinality({r.retadj : r \in TestGroup}) = 3
    /\ \/ UniformWeights
       \/ Cardinality({r \in TestGroup : r.wt # 0}) = 1

\* C14: a group whose weights sum to zero gets the missing value, neither a
\* finite nor an infinite number, and the other group of the frame gets its
\* value-weighted return.
C14_ZeroWeightSum ==
    (pc = "aggregated" /\ TestGroup # {}
        /\ SumOver(TestGroup, FALSE)[1] = 0) =>
            /\ IsNaN(ValueOf("1"))
            /\ NumEq(ValueOf("2"), <<10, 100>>)

C14_Witness ==
    /\ pc = "aggregated"
    /\ Cardinality(TestGroup) >= 2
    /\ SumOver(TestGroup, FALSE)[1] = 0
    /\ IsNaN(ValueOf("1"))

-----------------------------------------------------------------------------
(* The long-short column *)

\* equality of two cells, missing values alike
SameNum(x, y) == (IsNaN(x) /\ IsNaN(y)) \/ NumEq(x, y)

Sorted == pc \in {"ff_sorted", "mom_sorted"}

\* C15: with sign = +1 the 'H-L' column is the return of bucket
\* str(quantiles) minus the return of bucket '1', with sign = -1 it is the
\* negation, and on the same aggregated returns H-L(+1) = -H-L(-1) at every
\* date.
C15_LongShortSign ==
    (Sorted /\ ff_factors.raised = "") =>
        \A d \in DOMAIN ff_factors.HL :
            LET top == PivotCell(vwret, d, StrOf(quantiles))
                bottom == PivotCell(vwret, d, "1")
            IN  /\ sign = 1 => SameNum(ff_factors.HL[d], Sub(top, bottom))
                /\ sign = 0 - 1 =>
                      SameNum(ff_factors.HL[d], Neg(Sub(top, bottom)))
                /\ SameNum(HighMinusLow(vwret, quantiles, 1)[d],
                           Neg(HighMinusLow(vwret, quantiles, 0 - 1)[d]))

C15_Witness ==
    /\ Sorted
    /\ sign = 0 - 1
    /\ ff_factors.raised = ""
    /\ \E d \in DOMAIN ff_factors.HL :
          /\ ~IsNaN(ff_factors.HL[d])
          /\ ff_factors.HL[d][1] # 0

-----------------------------------------------------------------------------
(* Properties of the transition tables and the quantile sorts *)

FFDone == pc \in {"ff_csv", "ff_sorted", "ff_probs"}

MomDone == pc \in {"mom_csv", "mom_sorted", "mom_probs"}

FFLinked == pc \in {"ff_csv", "ff_probs"}

MomLinked == pc \in {"mom_csv", "mom_probs"}

RealLabels == {StrOf(i) : i \in 1..quantiles}

\* the rows of table T with the keys of r
SameKey(T, r) == {j \in T : j.PERMNO = r.PERMNO /\ j.jdate = r.jdate}

\* C2: every eligible observation (valid market equity, seen before) with a
\* factor value has exactly one label among '1'..str(quantiles), and every
\* observation without a factor value has the empty label, in the June
\* table of the Fama-French entry points and in the monthly table of the
\* momentum entry points.
C2_BucketCoverage ==
    /\ FFDone =>
          \A r \in ccm_jun :
              /\ Cardinality(SameKey(june, r)) = 1
              /\ \A j \in SameKey(june, r) :
                    /\ (r.dec_me > 0 /\ r.me > 0 /\ r.count >= 1
                            /\ ~IsNaN(r.fval))
                           => j.factor_portfolio \in RealLabels
                    /\ IsNaN(r.fval) => j.factor_portfolio = ""
    /\ MomDone =>
          \A r \in crsp3 :
              /\ Cardinality(SameKey(crsp4, r)) = 1
              /\ \A j \in SameKey(crsp4, r) :
                    /\ (r.me > 0 /\ r.count >= 1 /\ ~IsNaN(r.fval))
                           => j.factor_portfolio \in RealLabels
                    /\ IsNaN(r.fval) => j.factor_portfolio = ""

C2_Witness ==
    /\ pc = "ff_csv"
    /\ quantiles = 4
    /\ \E r \in ccm_jun :
          /\ IsNaN(r.fval) /\ r.dec_me > 0 /\ r.me > 0 /\ r.count >= 1
          /\ \A j \in SameKey(june, r) : j.factor_portfolio = ""
    /\ \E j \in june : j.factor_portfolio = "4"
    /\ \E j \in june : j.factor_portfolio = "1"

\* C3: a period whose breakpoint-defining population has no row gives the
\* empty bucket to every observation of the period.
C3_EmptyPopulation ==
    /\ FFDone =>
          \A j \in june :
              j.jdate \notin DOMAIN universe_ff => j.factor_portfolio = ""
    /\ MomDone =>
          \A r \in crsp4 :
              r.jdate \notin DOMAIN universe_mom => r.factor_portfolio = ""

\* the year of the June snapshot a month looks up
SnapshotYear(t) == IF Month(t) >= 7 THEN Year(t) ELSE Year(t) - 1

\* C5: a monthly observation carries the bucket of its entity's June
\* snapshot of the same calendar year from July on and of the year before
\* up to June (no bucket when there is no such snapshot), so the label of
\* an entity is the same in the twelve months July..June.
C5_FiscalYearBroadcast ==
    FFDone =>
        /\ \A c \in ccm3 :
              LET snap == {j \in june :
                              /\ j.PERMNO = c.PERMNO
                              /\ j.jdate = Date(SnapshotYear(c.jdate), 6)}
              IN  IF snap = {} THEN c.factor_portfolio = Missing
                  ELSE \A j \in snap :
                          c.factor_portfolio = j.factor_portfolio
        /\ \A c1, c2 \in ccm3 :
              (/\ c1.PERMNO = c2.PERMNO
               /\ SnapshotYear(c1.jdate) = SnapshotYear(c2.jdate))
                  => c1.factor_portfolio = c2.factor_portfolio

C5_Witness ==
    /\ pc = "ff_csv"
    /\ \E c1, c2 \in ccm3 :
          /\ c1.PERMNO = c2.PERMNO
          /\ Month(c1.jdate) = 6
          /\ c2.jdate = c1.jdate + 1
          /\ c1.factor_portfolio \in RealLabels
          /\ c2.factor_portfolio \in RealLabels
          /\ c1.factor_portfolio # c2.factor_portfolio

\* the rows that pass the eligibility filter with a bucket, at their own
\* dates: the rows an entity's positions are counted in
KeptFF ==
    {c \in ccm3 : /\ c.wt > 0
                  /\ c.valid_data = <<1, 1>>
                  /\ c.SHRCD \in {10, 11}
                  /\ c.factor_portfolio \notin {"", Missing}}

KeptMom ==
    {c \in crsp4 : /\ c.wt > 0
                   /\ c.valid_data = 1
                   /\ c.SHRCD \in {10, 11}
                   /\ c.factor_portfolio \notin {"", Missing}}

\* the rows of K of the entity of link l dated from..(l.jdate - 1)
Since(K, l, from) ==
    {e \in K : e.PERMNO = l.PERMNO /\ e.jdate >= from /\ e.jdate < l.jdate}

\* link l joins a row of K to the row of K n positions before it
LinkOK(l, K, n) ==
    /\ l.factor_portfolio # ""
    /\ l.past_portfolio # ""
    /\ \E cur \in K, past \in K :
          /\ cur.PERMNO = l.PERMNO /\ cur.jdate = l.jdate
          /\ cur.factor_portfolio = l.factor_portfolio
          /\ past.PERMNO = l.PERMNO /\ past.jdate < l.jdate
          /\ past.factor_portfolio = l.past_portfolio
          /\ Cardinality(Since(K, l, past.jdate)) = n

\* C6: every row of a transition file has a non-empty current bucket, its
\* past bucket is the non-empty bucket of the row lookback_period (momentum)
\* or 12 (Fama-French) positions earlier among the entity's date-sorted rows
\* that pass the eligibility filter, and both rows pass that filter
\* (valid_data = 1, wt > 0, share code 10 or 11) at their own dates.
C6_LinkConditions ==
    /\ FFLinked =>
          \A k \in 1..Len(transitions_csv) :
              LinkOK(transitions_csv[k], KeptFF, 12)
    /\ MomLinked =>
          \A k \in 1..Len(transitions_csv) :
              LinkOK(transitions_csv[k], KeptMom, lookback_period)

C6_Witness ==
    /\ pc = "ff_csv"
    /\ Len(transitions_csv) > 0
    /\ \E c \in ccm3 : c.wt = 0 /\ c.PERMNO = transitions_csv[1].PERMNO

\* C7: a link has at least lookback_period (momentum) or 12 (Fama-French)
\* eligible rows of its entity before it, so the first rows of an entity
\* and an entity with no more eligible rows than that produce no link.
C7_LeftCensoring ==
    /\ FFLinked =>
          \A k \in 1..Len(transitions_csv) :
              Cardinality(Since(KeptFF, transitions_csv[k], 0)) >= 12
    /\ MomLinked =>
          \A k \in 1..Len(transitions_csv) :
              Cardinality(Since(KeptMom, transitions_csv[k], 0))
                  >= lookback_period

C7_Witness ==
    /\ pc = "ff_csv"
    /\ Len(transitions_csv) > 0
    /\ \E c \in KeptFF :
          /\ Cardinality({e \in KeptFF : e.PERMNO = c.PERMNO}) = 12
          /\ \A k \in 1..Len(transitions_csv) :
                transitions_csv[k].PERMNO # c.PERMNO

\* C8 as claimed: the past bucket of a link is the bucket its entity held
\* exactly lookback_period months before the current month (momentum), and
\* the bucket of the June snapshot in force 12 months before the current
\* month (Fama-French), whatever months the entity's history misses.
C8_ExactMonthsEarlier ==
    /\ FFLinked =>
          \A k \in 1..Len(transitions_csv) :
              \A j \in june :
                  (/\ j.PERMNO = transitions_csv[k].PERMNO
                   /\ j.jdate = Date(SnapshotYear(transitions_csv[k].jdate
                                                      - 12), 6))
                      => j.factor_portfolio
                             = transitions_csv[k].past_portfolio
    /\ MomLinked =>
          \A k \in 1..Len(transitions_csv) :
              \A c \in crsp4 :
                  (/\ c.PERMNO = transitions_csv[k].PERMNO
                   /\ c.jdate = transitions_csv[k].jdate - lookback_period)
                      => c.factor_portfolio
                             = transitions_csv[k].past_portfolio

\* the past bucket of link l is the bucket of a row of K dated n months
\* before l when K has a row of the entity in each of the n months before
\* l, and the bucket of a row dated earlier than that otherwise
PastByPosition(l, K, n) ==
    \E past \in K :
        /\ past.PERMNO = l.PERMNO
        /\ past.factor_portfolio = l.past_portfolio
        /\ Cardinality(Since(K, l, past.jdate)) = n
        /\ IF Cardinality(Since(K, l, l.jdate - n)) = n
           THEN past.jdate = l.jdate - n
           ELSE past.jdate < l.jdate - n

\* C8 (amended): the past bucket of a link is the bucket of the entity's
\* row lookback_period (12 for Fama-French) positions earlier among its
\* eligible rows; it is the bucket held exactly that many months earlier
\* when the entity is eligible in every month in between, and the bucket of
\* an earlier month when an eligible month is missing.
C8_PastByPosition ==
    /\ FFLinked =>
          \A k \in 1..Len(transitions_csv) :
              PastByPosition(transitions_csv[k], KeptFF, 12)
    /\ MomLinked =>
          \A k \in 1..Len(transitions_csv) :
              PastByPosition(transitions_csv[k], KeptMom, lookback_period)

C8_Witness ==
    /\ pc = "mom_csv"
    /\ \E k \in 1..Len(transitions_csv) :
          /\ Cardinality(Since(KeptMom, transitions_csv[k],
                               transitions_csv[k].jdate - lookback_period))
                 < lookback_period
          /\ \A c \in crsp4 :
                (/\ c.PERMNO = transitions_csv[k].PERMNO
                 /\ c.jdate = transitions_csv[k].jdate - lookback_period)
                    => c.factor_portfolio
                           # transitions_csv[k].past_portfolio

Aggregated == pc \in {"ff_sorted", "mom_sorted", "hml", "rmw", "cma", "umd"}

\* C4: no aggregated (period, label) group of the quantile sorts and of the
\* factor replication has an empty factor label or an empty size label.
C4_NoEmptyLabelAggregated ==
    Aggregated =>
        \A g \in vwret :
            /\ g.factor_portfolio # ""
            /\ "szport" \in DOMAIN g => g.szport # ""

-----------------------------------------------------------------------------
(* The June snapshot behind a kept monthly row *)

JuneRebalanced == pc \in {"ff_csv", "ff_probs", "ff_sorted", "hml", "rmw", "cma"}

\* the monthly rows that enter the aggregates or the links (ccm4)
Entering ==
    IF pc \in {"ff_csv", "ff_probs"} THEN {ccm4[i] : i \in DOMAIN ccm4}
    ELSE ccm4

\* the rows of table T of entity e in the June whose snapshot month t uses
SnapshotOf(T, e, t) ==
    {j \in T : j.PERMNO = e /\ j.jdate = Date(SnapshotYear(t), 6)}

\* C16: every monthly observation that enters a value-weighted return or a
\* transition link of a June-rebalanced pipeline has the bucket of a June
\* snapshot of its entity with June market equity > 0, December market
\* equity > 0 and count >= 1.
C16_SnapshotValidity ==
    JuneRebalanced =>
        \A r \in Entering :
            /\ \E j \in SnapshotOf(ccm_jun, r.PERMNO, r.jdate) :
                  j.me > 0 /\ j.dec_me > 0 /\ j.count >= 1
            /\ \E j \in SnapshotOf(june, r.PERMNO, r.jdate) :
                  j.factor_portfolio = r.factor_portfolio

\* rows were kept although another entity-year with weighted common-stock
\* months has a snapshot without December market equity
C16_Witness ==
    /\ pc \in {"ff_sorted", "hml"}
    /\ ccm4 # {}
    /\ \E c \in crsp3 :
          /\ c.wt > 0
          /\ c.SHRCD \in {10, 11}
          /\ \E j \in SnapshotOf(ccm_jun, c.PERMNO, c.jdate) :
                j.dec_me = 0 /\ j.me > 0 /\ j.count >= 1
          /\ \A r \in ccm4 : ~(r.PERMNO = c.PERMNO /\ r.jdate = c.jdate)

-----------------------------------------------------------------------------
(* process_ccm_data and the Fama-French entry points on its output *)

\* jdate = datadate + YearEnd(0) + MonthEnd(6): June of the year after
JuneAfter(d) == Date(Year(d) + 1, 6)

\* ccm2: the fundamentals rows with a primary link that covers their June
LinkedFundamentals ==
    {[gvkey |-> c.gvkey, datadate |-> c.datadate, count |-> c.count,
      fval |-> c.fval, PERMNO |-> l.PERMNO, jdate |-> JuneAfter(c.datadate)]
     : <<c, l>> \in {x \in comp \X ccm :
                        /\ x[1].gvkey = x[2].gvkey
                        /\ x[2].LINKPRIM \in {"C", "P"}
                        /\ JuneAfter(x[1].datadate) >= x[2].LINKDT
                        /\ JuneAfter(x[1].datadate) <= x[2].LINKENDDT}}

\* ccm_jun = pd.merge(crsp_jun, ccm2, how='inner', on=['PERMNO', 'jdate'])
process_ccm_data ==
    /\ pc = "ccm_input"
    /\ ccm_jun' = {[PERMNO |-> x[1].PERMNO, jdate |-> x[1].jdate,
                    dec_me |-> x[1].dec_me, me |-> x[1].me,
                    SHRCD |-> x[1].SHRCD, EXCHCD |-> x[1].EXCHCD,
                    gvkey |-> x[2].gvkey, datadate |-> x[2].datadate,
                    count |-> x[2].count, fval |-> x[2].fval]
                   : x \in {y \in crsp_jun \X LinkedFundamentals :
                               /\ y[1].PERMNO = y[2].PERMNO
                               /\ y[1].jdate = y[2].jdate}}
    /\ pc' = "ff_input"
    /\ UNCHANGED <<stageVars, argVars, inputVars, crsp2, crsp3, rowVars, ffVars,
                   momVars, probVars, transitions_csv, vwret, sortVars>>

\* the fiscal year ends entity 1 may report: two in 1961 (a change of
\* fiscal year end) and one in 1962, each with a factor value or absent
CompDates == {Date(1961, 3), Date(1961, 12), Date(1962, 12)}

Absent == 0 - 1

\* comp['count'] = comp.groupby(['gvkey']).cumcount()
CompRows(g, c) ==
    {[gvkey |-> g, datadate |-> d,
      count |-> Cardinality({x \in DOMAIN c : c[x] # Absent /\ x < d}),
      fval |-> Num(c[d])]
     : d \in {x \in DOMAIN c : c[x] # Absent}}

\* the link of company 1 to entity 1: open, ended after June 1962, or not
\* a primary link
CcmLinks ==
    {[gvkey |-> 1, PERMNO |-> 1, LINKPRIM |-> "P",
      LINKDT |-> Date(1960, 1), LINKENDDT |-> Date(1970, 1)],
     [gvkey |-> 1, PERMNO |-> 1, LINKPRIM |-> "P",
      LINKDT |-> Date(1960, 1), LINKENDDT |-> Date(1962, 12)],
     [gvkey |-> 1, PERMNO |-> 1, LINKPRIM |-> "J",
      LINKDT |-> Date(1960, 1), LINKENDDT |-> Date(1970, 1)]}

\* the other entities: one company each, one fiscal year end per year
OtherComp(e) ==
    CompRows(e, [d \in {Date(1960, 12), Date(1961, 12), Date(1962, 12)}
                    |-> 1])

OtherLink(e) ==
    [gvkey |-> e, PERMNO |-> e, LINKPRIM |-> "C",
     LINKDT |-> Date(1960, 1), LINKENDDT |-> Date(1970, 1)]

InitCcm ==
    /\ files = Unused /\ files_read = Unused
    /\ pc = "ccm_input"
    /\ \E c \in [CompDates \cup {Date(1960, 12)} -> {Absent} \cup 0..MaxFactor] :
          /\ c[Date(1960, 12)] = 0
          /\ comp = CompRows(1, c)
                       \cup UNION {OtherComp(e) : e \in 2..NEntities}
    /\ \E l \in CcmLinks :
          ccm = {l} \cup {OtherLink(e) : e \in 2..NEntities}
    /\ crsp_jun = {[PERMNO |-> e, jdate |-> Date(y, 6), me |-> 1,
                    dec_me |-> 1, SHRCD |-> 10, EXCHCD |-> 1]
                   : e \in 1..NEntities, y \in JuneYears}
    /\ crsp3 = UNION {FullHistory(e) : e \in 1..NEntities}
    /\ quantiles = 2 /\ nyse_only = FALSE
    /\ sign = Unused /\ ff_factors = Unused
    /\ crsp2 = Unused /\ ccm_jun = Unused
    /\ universe_ff = Unused /\ june = Unused
    /\ ccm3 = Unused /\ ccm4 = Unused
    /\ universe_mom = Unused /\ crsp4 = Unused /\ crsp5 = Unused
    /\ transitions_csv = Unused
    /\ transition_counts = Unused /\ transition_probs = Unused
    /\ row = Unused /\ label = Unused
    /\ lookback_period = Unused /\ lag = Unused /\ vwret = Unused

NextCcm ==
    \/ process_ccm_data
    \/ create_ff_transition_tables
    \/ perform_ff_quantile_sorts
    \/ calculate_ff_transition_probabilities

SpecCcm == InitCcm /\ [][NextCcm]_vars

\* C17: the June table has at most one row per (entity, June), the join
\* gives every monthly row exactly one row with its (entity, month), and no
\* (entity, month) is twice among the rows that are aggregated or linked.
C17_OneSnapshotPerYear ==
    /\ pc # "ccm_input" =>
          \A j, k \in ccm_jun :
              (j.PERMNO = k.PERMNO /\ j.jdate = k.jdate) => j = k
    /\ JuneRebalanced =>
          /\ \A c \in crsp3 : Cardinality(SameKey(ccm3, c)) = 1
          /\ \A r \in Entering : Cardinality(SameKey(Entering, r)) = 1

-----------------------------------------------------------------------------
(* Gap years *)

\* the monthly rows of the panel whose fiscal year has no June snapshot
GapRows == {c \in crsp3 : SnapshotOf(ccm_jun, c.PERMNO, c.jdate) = {}}

\* C18: the monthly observations of a fiscal year without June snapshot of
\* the entity have the missing bucket after the join and are in no
\* aggregate and no link, whatever bucket the entity had the year before.
C18_GapYear ==
    (FFDone /\ pc # "ff_input") =>
        \A c \in GapRows :
            /\ \A m \in SameKey(ccm3, c) : m.factor_portfolio = Missing
            /\ SameKey(Entering, c) = {}

\* entity 1 was kept under its June 1961 snapshot and has weighted months
\* in the fiscal year 1962, for which it has no snapshot
C18_Witness ==
    /\ pc = "ff_sorted"
    /\ \E r \in ccm4 : r.PERMNO = 1 /\ r.jdate = Date(1962, 6)
    /\ Cardinality({c \in GapRows : /\ c.PERMNO = 1
                                    /\ c.ffyear = 1962
                                    /\ c.wt > 0
                                    /\ c.SHRCD \in {10, 11}}) = 12

-----------------------------------------------------------------------------
(* The percentile columns of one period *)

\* a column name 'w%' or 'w.t%' is the pair <<w, t>>, t the tenths digit.
\* describe() names the column of percentile 100 * i / q with as many
\* decimals as the value needs: '25%', but '33.3%'
DescribeColumn(i, q) ==
    IF (100 * i) % q = 0 THEN <<(100 * i) \div q, 0>>
    ELSE <<((1000 * i + (q \div 2)) \div q) \div 10,
           ((1000 * i + (q \div 2)) \div q) % 10>>

\* percentile_columns = [f'{int(p)}%' for p in percentiles]
percentile_column(i, q) == <<(100 * i) \div q, 0>>

\* row[f'{i * 100 // quantiles}%'] of quantile_bucket
LookedUpColumn(i, q) == <<ColumnOf(i, q), 0>>

\* universe_ff[['jdate'] + percentile_columns]: KeyError when describe()
\* produced no column of that name
SelectColumns(S, q) ==
    IF \A i \in 1..(q - 1) :
          \E k \in 1..(q - 1) : percentile_column(i, q) = DescribeColumn(k, q)
    THEN [raised |-> "",
          cols |-> [c \in {percentile_column(i, q) : i \in 1..(q - 1)} |->
                      Percentile(S, CHOOSE k \in 1..(q - 1) :
                                       DescribeColumn(k, q) = c, q)]]
    ELSE [raised |-> "KeyError", cols |-> <<>>]

\* the reference population of one June has at most UniverseSize rows
UniverseSize == 4

DescribeQuantiles == {2, 3, 4}

InitDescribe ==
    /\ files = Unused /\ files_read = Unused
    /\ pc = "universe"
    /\ quantiles \in DescribeQuantiles
    /\ \E c \in [1..UniverseSize -> {Absent} \cup 0..MaxFactor] :
          ccm_jun = {[PERMNO |-> e, jdate |-> FirstMonth, fval |-> Num(c[e])]
                     : e \in {x \in 1..UniverseSize : c[x] # Absent}}
    /\ comp = Unused /\ ccm = Unused /\ crsp_jun = Unused
    /\ sign = Unused /\ ff_factors = Unused
    /\ crsp2 = Unused /\ crsp3 = Unused /\ nyse_only = Unused
    /\ universe_ff = Unused /\ june = Unused
    /\ ccm3 = Unused /\ ccm4 = Unused
    /\ universe_mom = Unused /\ crsp4 = Unused /\ crsp5 = Unused
    /\ transitions_csv = Unused
    /\ transition_counts = Unused /\ transition_probs = Unused
    /\ row = Unused /\ label = Unused
    /\ lookback_period = Unused /\ lag = Unused /\ vwret = Unused

\* universe.groupby(['jdate'])[factor].describe(percentiles=...), then the
\* selection of the percentile columns
describe_percentiles ==
    /\ pc = "universe"
    /\ universe_ff' = SelectColumns(ccm_jun, quantiles)
    /\ pc' = "described"
    /\ UNCHANGED <<stageVars, argVars, fileVars, rowVars, june, ccm3, ccm4, momVars,
                   probVars, transitions_csv, vwret, sortVars>>

NextDescribe == describe_percentiles

SpecDescribe == InitDescribe /\ [][NextDescribe]_vars

\* C19: for a period with at least `quantiles` eligible observations there
\* are exactly quantiles - 1 breakpoints, each under the column name
\* quantile_bucket looks up for the same i, and they do not decrease in i.
C19_BreakpointColumns ==
    (pc = "described" /\ Cardinality(ccm_jun) >= quantiles) =>
        /\ universe_ff.raised = ""
        /\ Cardinality(DOMAIN universe_ff.cols) = quantiles - 1
        /\ \A i \in 1..(quantiles - 1) :
              /\ LookedUpColumn(i, quantiles) \in DOMAIN universe_ff.cols
              /\ SameNum(universe_ff.cols[LookedUpColumn(i, quantiles)],
                         Percentile(ccm_jun, i, quantiles))
        /\ \A i, k \in 1..(quantiles - 1) :
              i <= k => Leq(universe_ff.cols[LookedUpColumn(i, quantiles)],
                            universe_ff.cols[LookedUpColumn(k, quantiles)])

\* the same for the quantile counts whose percentiles are whole numbers
C19_WholePercentiles ==
    (100 % quantiles = 0) => C19_BreakpointColumns

-----------------------------------------------------------------------------
(* Compound size and factor buckets *)

CompoundLabels == {"SL", "SM", "SH", "BL", "BM", "BH"}

NothingMissing ==
    /\ ~IsNaN(row.fval)
    /\ ~IsNaN(row.bp.sizemedn) /\ ~IsNaN(row.bp.p30) /\ ~IsNaN(row.bp.p70)

\* C20: with market equity, factor value and the three breakpoints present,
\* the size label is 'S' iff me <= median and 'B' otherwise, the factor
\* label is 'L' iff value <= 30th percentile, 'M' iff 30th < value <= 70th,
\* 'H' iff value > 70th; the compound label is their concatenation, and the
\* labels aggregated by compute_hml, compute_rmw and compute_cma are among
\* SL, SM, SH, BL, BM, BH.
C20_CompoundBuckets ==
    /\ (pc = "compound" /\ NothingMissing) =>
          /\ label.szport = (IF row.me <= row.bp.sizemedn[1] THEN "S" ELSE "B")
          /\ label.factor_portfolio =
                (IF row.fval[1] <= row.bp.p30[1] THEN "L"
                 ELSE IF row.fval[1] <= row.bp.p70[1] THEN "M" ELSE "H")
          /\ label.size_factor_portfolio
                = label.szport \o label.factor_portfolio
          /\ label.size_factor_portfolio \in CompoundLabels
    /\ pc \in {"hml", "rmw", "cma"} =>
          \A g \in vwret :
              /\ g.size_factor_portfolio = g.szport \o g.factor_portfolio
              /\ g.size_factor_portfolio \in CompoundLabels

C20_Witness ==
    /\ pc = "compound"
    /\ NothingMissing
    /\ row.fval = row.bp.p70
    /\ label.size_factor_portfolio = "SM"

-----------------------------------------------------------------------------
(* The Fama-French entry points called with a quantile count below 2 *)

InvalidQuantiles == {0, 1}

InitConfig ==
    /\ files = Unused /\ files_read = Unused
    /\ pc = "ff_input"
    /\ quantiles \in InvalidQuantiles
    /\ nyse_only \in BOOLEAN
    /\ \E c1 \in JuneChoicesB1, c2 \in JuneChoicesB2 :
          ccm_jun = JuneRows(c1 @@ c2)
    /\ crsp3 = UNION {FullHistory(e) : e \in 1..NEntities}
    /\ comp = Unused /\ ccm = Unused /\ crsp_jun = Unused
    /\ sign = Unused /\ ff_factors = Unused
    /\ crsp2 = Unused
    /\ universe_ff = Unused /\ june = Unused
    /\ ccm3 = Unused /\ ccm4 = Unused
    /\ universe_mom = Unused /\ crsp4 = Unused /\ crsp5 = Unused
    /\ transitions_csv = Unused
    /\ transition_counts = Unused /\ transition_probs = Unused
    /\ row = Unused /\ label = Unused
    /\ lookback_period = Unused /\ lag = Unused /\ vwret = Unused

NextConfig ==
    \/ create_ff_transition_tables
    \/ perform_ff_quantile_sorts

SpecConfig == InitConfig /\ [][NextConfig]_vars

\* C21: an entry point called with quantiles < 2 assigns no bucket and
\* writes no transition file (it raises before).
C21_FailFast ==
    (pc \in {"ff_csv", "ff_sorted"} /\ quantiles < 2) =>
        /\ \A j \in june : j.factor_portfolio = ""
        /\ pc = "ff_csv" => transitions_csv = <<>>

-----------------------------------------------------------------------------
(* create_ff_industry_adjusted_transition_tables and
   create_industry_specific_transition_tables *)

\* universe: the filter of the standard pipeline, then the rows whose
\* factor is neither missing nor infinite
IndustryUniverse(tbl, nyse) ==
    {r \in UniverseFF(tbl, nyse) : ~IsNaN(r.fval) /\ ~IsInf(r.fval)}

\* universe.groupby(['jdate', 'industry'])[factor].median() at the group of
\* row r
IndustryMedian(universe, r) ==
    Percentile({t \in universe : /\ t.jdate = r.jdate
                                 /\ t.industry = r.industry}, 1, 2)

\* the universe with factor / industry median in place of the factor, less
\* the rows whose adjusted factor is missing or infinite
AdjustedUniverse(tbl, nyse) ==
    LET universe == IndustryUniverse(tbl, nyse)
        adjusted == {[r EXCEPT !.fval = Div(r.fval,
                                            IndustryMedian(universe, r))]
                     : r \in universe}
    IN  {r \in adjusted : ~IsNaN(r.fval) /\ ~IsInf(r.fval)}

\* june of the industry-adjusted pipeline: ccm1_jun is the universe merged
\* with its breakpoints
AdjustedJune(tbl, nyse, q) ==
    JuneTable(AdjustedUniverse(tbl, nyse),
              BreakpointTable(AdjustedUniverse(tbl, nyse), q), q)

create_ff_industry_adjusted_transition_tables ==
    /\ pc = "ff_input"
    /\ universe_ff' = BreakpointTable(AdjustedUniverse(ccm_jun, nyse_only),
                                      quantiles)
    /\ june' = AdjustedJune(ccm_jun, nyse_only, quantiles)
    /\ ccm3' = MergeJune(crsp3, june')
    /\ ccm4' = SortValues(FilterFF(ccm3'))
    /\ transitions_csv' = WithPast(ccm4', FFShift)
    /\ pc' = "adjusted_csv"
    /\ UNCHANGED <<stageVars, argVars, fileVars, rowVars, momVars, probVars, vwret,
                   sortVars>>

\* industries = universe['industry'].unique()
IndustriesOf(tbl, nyse) == {r.industry : r \in IndustryUniverse(tbl, nyse)}

\* industry_data of one pass of the loop
IndustryData(tbl, nyse, i) ==
    {r \in IndustryUniverse(tbl, nyse) : r.industry = i}

\* june_data of one pass: the bucket is assigned to every row of
\* industry_data, valid or not
IndustryJune(data, q) ==
    {LET b == quantile_bucket(
                  [factor |-> r.fval,
                   bp |-> MergedColumns(BreakpointTable(data, q),
                                        r.jdate, q)], q)
     IN  [PERMNO |-> r.PERMNO,
          jdate |-> r.jdate,
          ffyear |-> Year(r.jdate),
          factor_portfolio |-> b,
          valid_data |-> IF ValidJune(r) THEN 1 ELSE 0,
          non_missing_portfolio |-> IF b # "" THEN 1 ELSE 0] : r \in data}

create_industry_specific_transition_tables ==
    /\ pc = "ff_input"
    /\ universe_ff' = [i \in IndustriesOf(ccm_jun, nyse_only) |->
           BreakpointTable(IndustryData(ccm_jun, nyse_only, i), quantiles)]
    /\ june' = [i \in IndustriesOf(ccm_jun, nyse_only) |->
           IndustryJune(IndustryData(ccm_jun, nyse_only, i), quantiles)]
    /\ ccm3' = [i \in DOMAIN june' |-> MergeJune(crsp3, june'[i])]
    /\ ccm4' = [i \in DOMAIN june' |-> SortValues(FilterFF(ccm3'[i]))]
    /\ transitions_csv' = [i \in DOMAIN june' |-> WithPast(ccm4'[i], FFShift)]
    /\ transition_counts' = [i \in DOMAIN june' |->
                                PivotTable(transitions_csv'[i])]
    /\ transition_probs' = [i \in DOMAIN june' |->
                               Normalize(transition_counts'[i])]
    /\ pc' = "specific_tex"
    /\ UNCHANGED <<stageVars, argVars, fileVars, rowVars, momVars, vwret, sortVars>>

\* the panel of the industry pipelines: three entities with a snapshot in
\* the Junes of 1962 and 1963 and every month of the monthly panel
IndustryNames == {"Agric", "Food"}

IndustryEntities == 1..3

IndustryRow(e, y, p) ==
    [PERMNO |-> e, jdate |-> Date(y, 6), dec_me |-> p.dec_me, me |-> 1,
     count |-> 1, SHRCD |-> 10, EXCHCD |-> p.EXCHCD, fval |-> p.fval,
     industry |-> p.industry]

IndustryProfiles(e) ==
    IF e = 1
    THEN [dec_me : {1}, EXCHCD : {1}, fval : {Num(1), Num(MaxFactor)},
          industry : {"Agric"}]
    ELSE IF e = 2
    THEN [dec_me : {0, 1}, EXCHCD : {1, 3}, fval : FactorValues,
          industry : IndustryNames]
    ELSE [dec_me : {1}, EXCHCD : {1, 3}, fval : {Num(1), Num(MaxFactor)},
          industry : IndustryNames]

InitIndustry ==
    /\ files = Unused /\ files_read = Unused
    /\ pc = "ff_input"
    /\ quantiles = 2
    /\ nyse_only \in BOOLEAN
    /\ \E p1 \in IndustryProfiles(1), p2 \in IndustryProfiles(2),
          p3 \in IndustryProfiles(3) :
          ccm_jun = {IndustryRow(1, y, p1) : y \in {1962, 1963}}
                    \cup {IndustryRow(2, y, p2) : y \in {1962, 1963}}
                    \cup {IndustryRow(3, y, p3) : y \in {1962, 1963}}
    /\ crsp3 = UNION {FullHistory(e) : e \in IndustryEntities}
    /\ comp = Unused /\ ccm = Unused /\ crsp_jun = Unused
    /\ sign = Unused /\ ff_factors = Unused
    /\ crsp2 = Unused
    /\ universe_ff = Unused /\ june = Unused
    /\ ccm3 = Unused /\ ccm4 = Unused
    /\ universe_mom = Unused /\ crsp4 = Unused /\ crsp5 = Unused
    /\ transitions_csv = Unused
    /\ transition_counts = Unused /\ transition_probs = Unused
    /\ row = Unused /\ label = Unused
    /\ lookback_period = Unused /\ lag = Unused /\ vwret = Unused

NextIndustry ==
    \/ create_ff_transition_tables
    \/ create_ff_industry_adjusted_transition_tables
    \/ create_industry_specific_transition_tables

SpecIndustry == InitIndustry /\ [][NextIndustry]_vars

\* the (entity, period) pairs of June table jn that hold a bucket, among the
\* periods in ds
Bucketed(jn, ds) ==
    {<<j.PERMNO, j.jdate>> : j \in {x \in jn : /\ x.factor_portfolio # ""
                                              /\ x.jdate \in ds}}

\* the June rows of the industry-specific pipeline, all passes together,
\* of the industries and periods that have breakpoints under both settings
SpecificBucketed(tbl, nyse, q) ==
    UNION {Bucketed(IndustryJune(IndustryData(tbl, nyse, i), q),
                    {d \in {r.jdate : r \in IndustryData(tbl, TRUE, i)} :
                        d \in {r.jdate : r \in IndustryData(tbl, FALSE, i)}})
           : i \in IndustriesOf(tbl, nyse)}

\* C22: for a period in which both settings of nyse_only yield breakpoints,
\* the observations that receive a non-empty bucket are the same under
\* nyse_only = TRUE and nyse_only = FALSE, in the standard, the
\* industry-adjusted and the industry-specific pipeline.
C22_SameBucketedSet ==
    /\ pc = "ff_csv" =>
          LET ds == DOMAIN BreakpointTable(UniverseFF(ccm_jun, TRUE),
                                           quantiles)
                    \cap DOMAIN BreakpointTable(UniverseFF(ccm_jun, FALSE),
                                                quantiles)
          IN  Bucketed(june, ds)
                  = Bucketed(JuneTable(ccm_jun,
                                 BreakpointTable(
                                     UniverseFF(ccm_jun, ~nyse_only),
                                     quantiles), quantiles), ds)
    /\ pc = "adjusted_csv" =>
          LET ds == {r.jdate : r \in AdjustedUniverse(ccm_jun, TRUE)}
                    \cap {r.jdate : r \in AdjustedUniverse(ccm_jun, FALSE)}
          IN  Bucketed(june, ds)
                  = Bucketed(AdjustedJune(ccm_jun, ~nyse_only, quantiles), ds)
    /\ pc = "specific_tex" =>
          SpecificBucketed(ccm_jun, nyse_only, quantiles)
              = SpecificBucketed(ccm_jun, ~nyse_only, quantiles)

\* the standard pipeline alone
C22_StandardOnly ==
    pc = "ff_csv" =>
        LET ds == DOMAIN BreakpointTable(UniverseFF(ccm_jun, TRUE), quantiles)
        IN  Bucketed(june, ds)
                = Bucketed(JuneTable(ccm_jun,
                               BreakpointTable(
                                   UniverseFF(ccm_jun, ~nyse_only),
                                   quantiles), quantiles), ds)

-----------------------------------------------------------------------------
(* create_ff_multiyear_transition_tables *)

\* the rows of entity r.PERMNO before r, latest first: what
\* groupby('PERMNO')[factor].shift(lag) reads, lag = 1, 2, ...
PriorRows(tbl, r) == {t \in tbl : t.PERMNO = r.PERMNO /\ t.jdate < r.jdate}

LagRows(tbl, r) ==
    {t \in PriorRows(tbl, r) :
        Cardinality({u \in PriorRows(tbl, r) : u.jdate > t.jdate}) < 5}

RECURSIVE SumFactor(_)
SumFactor(S) ==
    IF S = {} THEN Num(0)
    ELSE LET t == CHOOSE x \in S : TRUE
         IN  Add(t.fval, SumFactor(S \ {t}))

\* the mean of the lag1..lag5 columns, infinities replaced by NaN and the
\* missing ones skipped; NaN when none is left
Multiyear(tbl, r) ==
    LET known == {t \in LagRows(tbl, r) : ~IsNaN(t.fval) /\ ~IsInf(t.fval)}
    IN  IF known = {} THEN NaN
        ELSE Div(SumFactor(known), Num(Cardinality(known)))

\* ccm_jun with its multiyear column, less the rows that have none
WithMultiyear(tbl) ==
    {[PERMNO |-> r.PERMNO, jdate |-> r.jdate, dec_me |-> r.dec_me,
      me |-> r.me, count |-> r.count, SHRCD |-> r.SHRCD,
      EXCHCD |-> r.EXCHCD, fval |-> r.fval,
      multiyear |-> Multiyear(tbl, r)]
     : r \in {x \in tbl : ~IsNaN(Multiyear(tbl, x))}}

MultiyearUniverse(tbl, nyse) ==
    {r \in UniverseFF(WithMultiyear(tbl), nyse) :
        ~IsNaN(r.fval) /\ ~IsInf(r.fval)}

\* universe_ff_current
CurrentBreakpoints(tbl, nyse, q) ==
    BreakpointTable(MultiyearUniverse(tbl, nyse), q)

\* universe_ff_past: the percentiles of the multiyear column
PastBreakpoints(tbl, nyse, q) ==
    BreakpointTable({[r EXCEPT !.fval = r.multiyear]
                     : r \in MultiyearUniverse(tbl, nyse)}, q)

\* june: both buckets are read off the columns named f'{pct}%', which after
\* the two merges (suffixes ('', '_past')) are those of universe_ff_current
MultiyearJune(tbl, nyse, q) ==
    {LET bp == MergedColumns(CurrentBreakpoints(tbl, nyse, q), r.jdate, q)
         b == IF ValidJune(r)
              THEN quantile_bucket([factor |-> r.fval, bp |-> bp], q)
              ELSE ""
         p == IF ValidJune(r)
              THEN quantile_bucket([factor |-> r.multiyear, bp |-> bp], q)
              ELSE ""
     IN  [PERMNO |-> r.PERMNO,
          jdate |-> r.jdate,
          ffyear |-> Year(r.jdate),
          factor_portfolio |-> b,
          past_factor_portfolio |-> p,
          valid_data |-> IF ValidJune(r) THEN 1 ELSE 0,
          non_missing_portfolio |-> IF b # "" /\ p # "" THEN 1 ELSE 0]
     : r \in WithMultiyear(tbl)}

\* pd.merge(crsp3, june[...], how='left', on=['PERMNO', 'ffyear'])
MergeMultiyear(monthly, jn) ==
    UNION {LET partners == {j \in jn : /\ j.PERMNO = c.PERMNO
                                       /\ j.ffyear = c.ffyear}
           IN  IF partners = {}
               THEN {[PERMNO |-> c.PERMNO, jdate |-> c.jdate,
                      ffyear |-> c.ffyear, wt |-> c.wt, SHRCD |-> c.SHRCD,
                      retadj |-> c.retadj,
                      factor_portfolio |-> Missing,
                      past_factor_portfolio |-> Missing,
                      valid_data |-> NaN,
                      non_missing_portfolio |-> NaN]}
               ELSE {[PERMNO |-> c.PERMNO, jdate |-> c.jdate,
                      ffyear |-> c.ffyear, wt |-> c.wt, SHRCD |-> c.SHRCD,
                      retadj |-> c.retadj,
                      factor_portfolio |-> j.factor_portfolio,
                      past_factor_portfolio |-> j.past_factor_portfolio,
                      valid_data |-> Num(j.valid_data),
                      non_missing_portfolio |->
                          Num(j.non_missing_portfolio)] : j \in partners}
           : c \in monthly}

\* groupby('PERMNO')['past_factor_portfolio'].shift(n), then
\* dropna(subset=['factor_portfolio', 'past_portfolio'])
WithPastMultiyear(f, n) ==
    LET g == [k \in 1..Len(f) |->
                 [PERMNO |-> f[k].PERMNO,
                  jdate |-> f[k].jdate,
                  factor_portfolio |-> f[k].factor_portfolio,
                  past_portfolio |->
                      IF PositionInGroup(f, k) - n < 1 THEN Missing
                      ELSE GroupOf(f, k)[PositionInGroup(f, k) - n]
                               .past_factor_portfolio]]
        Kept(r) == r.factor_portfolio # Missing /\ r.past_portfolio # Missing
    IN  SelectSeq(g, Kept)

create_ff_multiyear_transition_tables ==
    /\ pc = "ff_input"
    /\ universe_ff' =
           [current |-> CurrentBreakpoints(ccm_jun, nyse_only, quantiles),
            past |-> PastBreakpoints(ccm_jun, nyse_only, quantiles)]
    /\ june' = MultiyearJune(ccm_jun, nyse_only, quantiles)
    /\ ccm3' = MergeMultiyear(crsp3, june')
    /\ ccm4' = SortValues(FilterFF(ccm3'))
    /\ transitions_csv' = WithPastMultiyear(ccm4', FFShift)
    /\ pc' = "multiyear_csv"
    /\ UNCHANGED <<stageVars, argVars, fileVars, rowVars, momVars, probVars, vwret,
                   sortVars>>

\* the panel: three entities over the Junes of 1961..1963; a June an entity
\* has no snapshot for is Unused (no value)
MultiyearYears == {1961, 1962, 1963}

MultiyearChoices(e) ==
    IF e = 1
    THEN [y61 : {Num(1)}, y62 : {Num(1), Num(MaxFactor)},
          y63 : {Num(1), Num(MaxFactor)}, EXCHCD : {1}]
    ELSE IF e = 2
    THEN [y61 : {Unused, Num(1)},
          y62 : {Unused, Num(0), Num(MaxFactor), NaN},
          y63 : FactorValues \ {NaN}, EXCHCD : {1}]
    ELSE [y61 : {Unused}, y62 : {Unused, Num(1)},
          y63 : {Unused} \cup (FactorValues \ {NaN}), EXCHCD : {1, 3}]

MultiyearRows(e, c) ==
    {[PERMNO |-> e, jdate |-> Date(k[1], 6), dec_me |-> 1, me |-> 1,
      count |-> 1, SHRCD |-> 10, EXCHCD |-> c.EXCHCD, fval |-> k[2]]
     : k \in {x \in {<<1961, c.y61>>, <<1962, c.y62>>, <<1963, c.y63>>}
                 : x[2] # Unused}}

InitMultiyear ==
    /\ files = Unused /\ files_read = Unused
    /\ pc = "ff_input"
    /\ quantiles = 2
    /\ nyse_only \in BOOLEAN
    /\ \E c1 \in MultiyearChoices(1), c2 \in MultiyearChoices(2),
          c3 \in MultiyearChoices(3) :
          ccm_jun = MultiyearRows(1, c1) \cup MultiyearRows(2, c2)
                        \cup MultiyearRows(3, c3)
    /\ crsp3 = UNION {FullHistory(e) : e \in 1..3}
    /\ comp = Unused /\ ccm = Unused /\ crsp_jun = Unused
    /\ sign = Unused /\ ff_factors = Unused
    /\ crsp2 = Unused
    /\ universe_ff = Unused /\ june = Unused
    /\ ccm3 = Unused /\ ccm4 = Unused
    /\ universe_mom = Unused /\ crsp4 = Unused /\ crsp5 = Unused
    /\ transitions_csv = Unused
    /\ transition_counts = Unused /\ transition_probs = Unused
    /\ row = Unused /\ label = Unused
    /\ lookback_period = Unused /\ lag = Unused /\ vwret = Unused

NextMultiyear ==
    \/ create_ff_transition_tables
    \/ create_ff_multiyear_transition_tables

SpecMultiyear == InitMultiyear /\ [][NextMultiyear]_vars

\* C23: the current bucket the multi-year pipeline gives an observation is
\* the current bucket the single-year pipeline gives the same observation
\* of the same panel under the same configuration.
C23_SameCurrentBucket ==
    pc = "multiyear_csv" =>
        \A j \in june :
            \A s \in JuneTable(ccm_jun,
                               BreakpointTable(UniverseFF(ccm_jun, nyse_only),
                                               quantiles), quantiles) :
                (s.PERMNO = j.PERMNO /\ s.jdate = j.jdate) =>
                    s.factor_portfolio = j.factor_portfolio

-----------------------------------------------------------------------------
(* The population behind the momentum breakpoints *)

\* the NYSE rows of the panel that pass the universe filter
NyseUniverse(tbl) ==
    {r \in tbl : r.me > 0 /\ r.count >= 1 /\ Common(r) /\ r.EXCHCD = 1}

\* C24: with nyse_only the breakpoints of the momentum transition table are
\* the percentiles of the NYSE rows that pass the universe filter (market
\* equity > 0, count >= 1, share code 10 or 11), period by period.
C24_NyseUniverse ==
    (pc = "mom_csv" /\ nyse_only) =>
        \A d \in DOMAIN universe_mom :
            \A c \in BreakpointColumns(quantiles) :
                SameNum(universe_mom[d][c],
                        Breakpoints(NyseUniverse(crsp3), d, quantiles)[c])

-----------------------------------------------------------------------------
(* sz_bucket on a row whose market equity may be missing *)

\* market equity and size median are the whole numbers 0..MaxSize, or NaN
MaxSize == 7

SizeValues == {Num(v) : v \in 0..MaxSize} \cup {NaN}

InitSize ==
    /\ files = Unused /\ files_read = Unused
    /\ pc = "size_row"
    /\ row \in [me : SizeValues, sizemedn : SizeValues]
    /\ label = Unused
    /\ comp = Unused /\ ccm = Unused /\ crsp_jun = Unused
    /\ sign = Unused /\ ff_factors = Unused
    /\ crsp2 = Unused /\ crsp3 = Unused /\ ccm_jun = Unused
    /\ quantiles = Unused /\ nyse_only = Unused
    /\ universe_ff = Unused /\ june = Unused
    /\ ccm3 = Unused /\ ccm4 = Unused
    /\ universe_mom = Unused /\ crsp4 = Unused /\ crsp5 = Unused
    /\ transitions_csv = Unused
    /\ transition_counts = Unused /\ transition_probs = Unused
    /\ lookback_period = Unused /\ lag = Unused /\ vwret = Unused

\* ccm1_jun['szport'] = ccm1_jun.apply(sz_bucket, axis=1), one row
apply_sz_bucket ==
    /\ pc = "size_row"
    /\ label' = SizeLabel(row.me, row.sizemedn)
    /\ pc' = "size_label"
    /\ UNCHANGED <<stageVars, argVars, fileVars, row, ffVars, momVars, transitions_csv,
                   probVars, vwret, sortVars>>

NextSize == apply_sz_bucket

SpecSize == InitSize /\ [][NextSize]_vars

\* C25: sz_bucket returns '' when market equity is missing, and 'S' or 'B'
\* only for a market equity and a size median that are both present.
C25_MissingSize ==
    pc = "size_label" =>
        /\ IsNaN(row.me) => label = ""
        /\ label \in {"S", "B"} => (~IsNaN(row.me) /\ ~IsNaN(row.sizemedn))

\* the part of the statement about rows whose two values are present
C25_PresentOnly ==
    (pc = "size_label" /\ ~IsNaN(row.me) /\ ~IsNaN(row.sizemedn)) =>
        label = (IF row.me[1] <= row.sizemedn[1] THEN "S" ELSE "B")

-----------------------------------------------------------------------------
(* process_crsp_data: the delisting-adjusted return of one merged row *)

\* (DLSTCD == 500) | ((DLSTCD >= 520) & (DLSTCD <= 584)); a row without a
\* delisting has DLSTCD NaN
DLCode(r) ==
    \/ NumEq(r.DLSTCD, Num(500))
    \/ Leq(Num(520), r.DLSTCD) /\ Leq(r.DLSTCD, Num(584))

\* np.where(DLCode & DLRET.isnull() & DLRET.isin([1, 2]), -0.3, DLRET)
FirstWhere(r) ==
    IF /\ DLCode(r)
       /\ IsNaN(r.DLRET)
       /\ (NumEq(r.DLRET, Num(1)) \/ NumEq(r.DLRET, Num(2)))
    THEN <<0 - 3, 10>>
    ELSE r.DLRET

\* np.where(DLCode & DLRET.isnull() & (DLRET == 3), -0.55, DLRET), on the
\* column the first np.where left
SecondWhere(r) ==
    IF /\ DLCode(r)
       /\ IsNaN(FirstWhere(r))
       /\ NumEq(FirstWhere(r), Num(3))
    THEN <<0 - 55, 100>>
    ELSE FirstWhere(r)

\* fillna(0)
FillNa(x) == IF IsNaN(x) THEN Num(0) ELSE x

\* (1 + MthRet) * (1 + DelRet) - 1
Compound(m, d) == Sub(Mul(Add(Num(1), m), Add(Num(1), d)), Num(1))

DelRet(r) == FillNa(SecondWhere(r))

retadj(r) == Compound(FillNa(r.MthRet), DelRet(r))

\* delisting codes on both sides of the performance-related ranges, and NaN
\* for a month without a delisting
DelistingCodes == {NaN, Num(400), Num(500), Num(520), Num(584), Num(585)}

DelistingReturns == {NaN, <<0 - 1, 2>>, Num(0), Num(1), Num(2), Num(3)}

MonthlyReturns == {NaN, <<0 - 1, 10>>, Num(0), <<1, 10>>}

InitDelisting ==
    /\ files = Unused /\ files_read = Unused
    /\ pc = "crsp_row"
    /\ row \in [DLSTCD : DelistingCodes, DLRET : DelistingReturns,
                 MthRet : MonthlyReturns, EXCHCD : 1..3]
    /\ label = Unused
    /\ comp = Unused /\ ccm = Unused /\ crsp_jun = Unused
    /\ sign = Unused /\ ff_factors = Unused
    /\ crsp2 = Unused /\ crsp3 = Unused /\ ccm_jun = Unused
    /\ quantiles = Unused /\ nyse_only = Unused
    /\ universe_ff = Unused /\ june = Unused
    /\ ccm3 = Unused /\ ccm4 = Unused
    /\ universe_mom = Unused /\ crsp4 = Unused /\ crsp5 = Unused
    /\ transitions_csv = Unused
    /\ transition_counts = Unused /\ transition_probs = Unused
    /\ lookback_period = Unused /\ lag = Unused /\ vwret = Unused

adjust_delisting_return ==
    /\ pc = "crsp_row"
    /\ label' = [DelRet |-> DelRet(row), retadj |-> retadj(row)]
    /\ pc' = "crsp_retadj"
    /\ UNCHANGED <<stageVars, argVars, fileVars, row, ffVars, momVars, transitions_csv,
                   probVars, vwret, sortVars>>

NextDelisting == adjust_delisting_return

SpecDelisting == InitDelisting /\ [][NextDelisting]_vars

\* the delisting return the statement uses for row r
StatedDelRet(r) ==
    IF ~IsNaN(r.DLRET) THEN r.DLRET
    ELSE IF DLCode(r)
    THEN (IF r.EXCHCD \in {1, 2} THEN <<0 - 3, 10>> ELSE <<0 - 55, 100>>)
    ELSE Num(0)

\* C26: a performance-related delisting (DLSTCD 500 or 520..584) without a
\* delisting return enters retadj = (1 + MthRet) * (1 + DelRet) - 1 with
\* -0.30 on NYSE and AMEX and -0.55 on NASDAQ; any other missing delisting
\* return counts as 0.
C26_DelistingAdjustment ==
    pc = "crsp_retadj" =>
        /\ SameNum(label.DelRet, StatedDelRet(row))
        /\ SameNum(label.retadj,
                   Compound(FillNa(row.MthRet), StatedDelRet(row)))

\* the rows the replacement does not concern
C26_OtherRows ==
    (pc = "crsp_retadj" /\ ~(DLCode(row) /\ IsNaN(row.DLRET))) =>
        /\ SameNum(label.DelRet, FillNa(row.DLRET))
        /\ SameNum(label.retadj,
                   Compound(FillNa(row.MthRet), FillNa(row.DLRET)))

-----------------------------------------------------------------------------
(* OPEX in process_compustat_data and in calculate_operating_profitability *)

\* coalesce(x, y): x.where(x.notnull(), y)
coalesce(x, y) == IF ~IsNaN(x) THEN x ELSE y

\* np.where(c, a, b) with a float column as the condition: every value but
\* zero selects a, NaN included
WhereTruthy(c, a, b) == IF NumEq(c, Num(0)) THEN b ELSE a

\* comp['OPEX'] = coalesce(comp['xopr'], comp['cogs'] + comp['xsga'])
OpexProcessed(r) == coalesce(r.xopr, Add(r.cogs, r.xsga))

\* comp['OPEX'] = np.where(comp['xopr'], comp['cogs'] + comp['xsga'],
\*                         comp['xopr'])
OpexProfitability(r) == WhereTruthy(r.xopr, Add(r.cogs, r.xsga), r.xopr)

InitOpex ==
    /\ files = Unused /\ files_read = Unused
    /\ pc = "comp_row"
    /\ row \in [xopr : FactorValues, cogs : FactorValues,
                 xsga : FactorValues]
    /\ label = Unused
    /\ comp = Unused /\ ccm = Unused /\ crsp_jun = Unused
    /\ sign = Unused /\ ff_factors = Unused
    /\ crsp2 = Unused /\ crsp3 = Unused /\ ccm_jun = Unused
    /\ quantiles = Unused /\ nyse_only = Unused
    /\ universe_ff = Unused /\ june = Unused
    /\ ccm3 = Unused /\ ccm4 = Unused
    /\ universe_mom = Unused /\ crsp4 = Unused /\ crsp5 = Unused
    /\ transitions_csv = Unused
    /\ transition_counts = Unused /\ transition_probs = Unused
    /\ lookback_period = Unused /\ lag = Unused /\ vwret = Unused

\* the OPEX column of process_compustat_data, one row
opex_process_compustat_data ==
    /\ pc = "comp_row"
    /\ label' = [OPEX |-> OpexProcessed(row)]
    /\ pc' = "opex_processed"
    /\ UNCHANGED <<stageVars, argVars, fileVars, row, ffVars, momVars, transitions_csv,
                   probVars, vwret, sortVars>>

\* the OPEX column of calculate_operating_profitability, one row
opex_calculate_operating_profitability ==
    /\ pc = "comp_row"
    /\ label' = [OPEX |-> OpexProfitability(row)]
    /\ pc' = "opex_profitability"
    /\ UNCHANGED <<stageVars, argVars, fileVars, row, ffVars, momVars, transitions_csv,
                   probVars, vwret, sortVars>>

NextOpex ==
    \/ opex_process_compustat_data
    \/ opex_calculate_operating_profitability

SpecOpex == InitOpex /\ [][NextOpex]_vars

\* C27: OPEX is xopr whenever xopr is present (0 included) and cogs + xsga
\* only when xopr is missing, in both functions, which therefore agree on
\* every row.
C27_OpexCoalesce ==
    pc \in {"opex_processed", "opex_profitability"} =>
        /\ ~IsNaN(row.xopr) => SameNum(label.OPEX, row.xopr)
        /\ IsNaN(row.xopr) => SameNum(label.OPEX, Add(row.cogs, row.xsga))
        /\ SameNum(OpexProcessed(row), OpexProfitability(row))

\* process_compustat_data alone
C27_ProcessedOnly ==
    pc = "opex_processed" =>
        /\ ~IsNaN(row.xopr) => SameNum(label.OPEX, row.xopr)
        /\ IsNaN(row.xopr) => SameNum(label.OPEX, Add(row.cogs, row.xsga))

-----------------------------------------------------------------------------
(* The momentum signal of the transition table, the quantile sorts and
   compute_umd on one panel *)

\* entity 1 has NMonthsSignal months from June 1962 on, entity 2 the first
\* three of them
NMonthsSignal == 14

SignalMonths == FirstMonth..(FirstMonth + NMonthsSignal - 1)

\* (lookback_period, lag)
SignalConfigs == {<<1, 0>>, <<2, 1>>, <<3, 1>>, <<12, 1>>}

\* entity 1 returns 1 in month spike and 0 elsewhere, and has no row in
\* month hole; entity 2 returns 5 throughout
SignalPanel(spike, hole) ==
    WithCount({MomRow(1, t, IF t = spike THEN 1 ELSE 0, 1, 1, 1)
               : t \in SignalMonths \ {hole}}
              \cup {MomRow(2, t, 5, 1, 1, 1)
                    : t \in FirstMonth..(FirstMonth + 2)})

SignalHoles == {FirstMonth - 1, FirstMonth + 2, FirstMonth + 12}

InitSignal ==
    /\ files = Unused /\ files_read = Unused
    /\ \/ /\ pc = "mom_input"
          /\ \E c \in SignalConfigs : lookback_period = c[1] /\ lag = c[2]
          /\ quantiles = 2
          /\ nyse_only = FALSE
       \/ /\ pc = "factor_input"
          /\ lookback_period = Unused /\ lag = Unused
          /\ quantiles = Unused /\ nyse_only = Unused
    /\ \E spike \in SignalMonths, hole \in SignalHoles :
          crsp3 = SignalPanel(spike, hole)
    /\ comp = Unused /\ ccm = Unused /\ crsp_jun = Unused
    /\ sign = Unused /\ ff_factors = Unused
    /\ crsp2 = Unused /\ ccm_jun = Unused
    /\ universe_ff = Unused /\ june = Unused
    /\ ccm3 = Unused /\ ccm4 = Unused
    /\ universe_mom = Unused /\ crsp4 = Unused /\ crsp5 = Unused
    /\ transitions_csv = Unused
    /\ transition_counts = Unused /\ transition_probs = Unused
    /\ row = Unused /\ label = Unused
    /\ vwret = Unused

NextSignal ==
    \/ create_original_mom_transition_table
    \/ perform_mom_quantile_sorts
    \/ compute_umd

SpecSignal == InitSignal /\ [][NextSignal]_vars

\* the row of r's entity k rows before r
RowsBack(S, r, k) ==
    {u \in Earlier(S, r.PERMNO, r.jdate) :
        Cardinality({v \in Earlier(S, r.PERMNO, r.jdate) :
                        v.jdate > u.jdate}) = k - 1}

\* the signal as stated: the mean return of the rows lg + 1 .. L rows
\* before r, missing when fewer than L rows precede r
StatedSignal(S, r, L, lg) ==
    IF Cardinality(Earlier(S, r.PERMNO, r.jdate)) < L THEN NaN
    ELSE <<SumRet(UNION {RowsBack(S, r, k) : k \in (lg + 1)..L}), L - lg>>

\* C28: MOMENTUM at a row is the mean of the same entity's retadj over the
\* rows t - lookback_period .. t - lag - 1, missing when fewer than
\* lookback_period rows precede it; compute_umd's MOMENTUM is that of
\* (lookback_period, lag) = (12, 1).
C28_MomentumSignal ==
    /\ pc \in {"mom_csv", "mom_sorted"} =>
          \A r \in crsp3 :
              SameNum(r.fval, StatedSignal(crsp3, r, lookback_period, lag))
    /\ pc = "umd" =>
          \A r \in crsp3 :
              /\ SameNum(r.fval, StatedSignal(crsp3, r, 12, 1))
              /\ SameNum(r.fval, Momentum(crsp3, r, 12, 1))

C28_Witness ==
    /\ pc = "mom_csv"
    /\ lookback_period = 12
    /\ \E r \in crsp3 : r.PERMNO = 1 /\ Gt(r.fval, Num(0))
    /\ \E r \in crsp3 : r.PERMNO = 1 /\ NumEq(r.fval, Num(0))
    /\ \E r \in crsp3 : r.PERMNO = 2 /\ IsNaN(r.fval)

-----------------------------------------------------------------------------
(* The copies of the bucketing helper *)

\* quantile_bucket of quantile_sorts.py
quantile_bucket_sorts(r, q) ==
    IF IsNaN(r.factor) THEN "" ELSE BucketScan(r, q, 1)

\* quantile_bucket of momentum_tests.py: the loop alone
quantile_bucket_tests(r, q) == BucketScan(r, q, 1)

\* the for loop of get_decile_bucket over the thresholds i, i + 1, ..., 9,
\* and the return after it
RECURSIVE DecileScan(_, _, _)
DecileScan(factor_value, decile_thresholds, i) ==
    IF i > Len(decile_thresholds)
    THEN (IF Gt(factor_value, decile_thresholds[Len(decile_thresholds)])
          THEN "10" ELSE "")
    ELSE IF Leq(factor_value, decile_thresholds[i]) THEN StrOf(i)
    ELSE DecileScan(factor_value, decile_thresholds, i + 1)

get_decile_bucket(factor_value, decile_thresholds) ==
    DecileScan(factor_value, decile_thresholds, 1)

\* decile_bucket(row, factor): the thresholds are the columns '10%'..'90%'
decile_bucket(r) ==
    get_decile_bucket(r.factor, [i \in 1..9 |-> r.bp[10 * i]])

HelperQuantiles == {2, 4, 10}

\* the breakpoint rows of ten quantiles: non-decreasing percentiles that
\* step from 0 to 1 after column a and from 1 to 2 after column b, or a row
\* without breakpoints
DecileRows ==
    {[c \in BreakpointColumns(10) |->
         IF c <= 10 * a THEN Num(0)
         ELSE IF c <= 10 * b THEN Num(1) ELSE Num(MaxFactor)]
     : a \in 0..9, b \in 0..9}
        \cup {[c \in BreakpointColumns(10) |-> NaN]}

InitHelpers ==
    /\ files = Unused /\ files_read = Unused
    /\ pc = "helper_row"
    /\ quantiles \in HelperQuantiles
    /\ row \in [factor : FactorValues,
                 bp : IF quantiles = 10 THEN DecileRows
                      ELSE [BreakpointColumns(quantiles) -> FactorValues]]
    /\ label = Unused
    /\ comp = Unused /\ ccm = Unused /\ crsp_jun = Unused
    /\ sign = Unused /\ ff_factors = Unused
    /\ crsp2 = Unused
    /\ lookback_period = Unused /\ lag = Unused /\ nyse_only = Unused
    /\ crsp3 = Unused /\ ccm_jun = Unused /\ june = Unused
    /\ universe_ff = Unused /\ universe_mom = Unused
    /\ ccm3 = Unused /\ ccm4 = Unused /\ crsp4 = Unused /\ crsp5 = Unused
    /\ transitions_csv = Unused
    /\ transition_counts = Unused /\ transition_probs = Unused
    /\ vwret = Unused

bucket_transitions ==
    /\ pc = "helper_row"
    /\ label' = quantile_bucket(row, quantiles)
    /\ pc' = "bucket_transitions"
    /\ UNCHANGED <<stageVars, argVars, fileVars, row, ffVars, momVars, transitions_csv,
                   probVars, vwret, sortVars>>

bucket_sorts ==
    /\ pc = "helper_row"
    /\ label' = quantile_bucket_sorts(row, quantiles)
    /\ pc' = "bucket_sorts"
    /\ UNCHANGED <<stageVars, argVars, fileVars, row, ffVars, momVars, transitions_csv,
                   probVars, vwret, sortVars>>

bucket_tests ==
    /\ pc = "helper_row"
    /\ label' = quantile_bucket_tests(row, quantiles)
    /\ pc' = "bucket_tests"
    /\ UNCHANGED <<stageVars, argVars, fileVars, row, ffVars, momVars, transitions_csv,
                   probVars, vwret, sortVars>>

\* decile_bucket reads the columns '10%'..'90%', which a row of ten
\* quantiles has
bucket_decile ==
    /\ pc = "helper_row"
    /\ quantiles = 10
    /\ label' = decile_bucket(row)
    /\ pc' = "bucket_decile"
    /\ UNCHANGED <<stageVars, argVars, fileVars, row, ffVars, momVars, transitions_csv,
                   probVars, vwret, sortVars>>

NextHelpers ==
    \/ bucket_transitions
    \/ bucket_sorts
    \/ bucket_tests
    \/ bucket_decile

SpecHelpers == InitHelpers /\ [][NextHelpers]_vars

\* C29: on every row, missing factor values and missing breakpoints
\* included, the three copies of quantile_bucket return the same label, and
\* with ten quantiles decile_bucket returns it too.
C29_HelpersAgree ==
    pc \in {"bucket_transitions", "bucket_sorts", "bucket_tests",
            "bucket_decile"} =>
        label = quantile_bucket(row, quantiles)

\* the copies of transitions.py and quantile_sorts.py alone
C29_TwoCopies ==
    pc \in {"bucket_transitions", "bucket_sorts"} =>
        /\ label = quantile_bucket(row, quantiles)
        /\ label = quantile_bucket_sorts(row, quantiles)

-----------------------------------------------------------------------------
(* replicate_fama_french: the stages and the files of data/ *)

RmFile == "processed_rm_factor.csv"

HmlFile == "processed_hml_factor.csv"

RmwFile == "processed_rmw_factor.csv"

CmaFile == "processed_cma_factor.csv"

UmdFile == "processed_umd_factor.csv"

RawFactors == "raw_factors.csv"

ReplicatedFile == "processed_ff_replicated.csv"

\* files_to_delete
IntermediateFiles == {RmFile, HmlFile, RmwFile, CmaFile, UmdFile}

StageFiles == IntermediateFiles \cup {RawFactors, ReplicatedFile}

to_csv_skipped(fs, name) == fs

\* frame.to_csv(name): the file exists afterwards and holds what this run
\* computed ("fresh"); a file an earlier run left is "stale"
to_csv(fs, name) == [fs EXCEPT ![name] = "fresh"]

\* Path(file).unlink() for every file of files_to_delete that exists
Unlinked(fs) ==
    [f \in DOMAIN fs |-> IF f \in IntermediateFiles THEN "absent" ELSE fs[f]]

\* the call of replicate_fama_french: any of the files may be there from an
\* earlier run
InitStages ==
    /\ pc = "replicate"
    /\ files \in [StageFiles -> {"absent", "stale"}]
    /\ files_read = Unused
    /\ comp = Unused /\ ccm = Unused /\ crsp_jun = Unused
    /\ sign = Unused /\ ff_factors = Unused
    /\ crsp2 = Unused /\ crsp3 = Unused /\ ccm_jun = Unused
    /\ quantiles = Unused /\ nyse_only = Unused
    /\ universe_ff = Unused /\ june = Unused
    /\ ccm3 = Unused /\ ccm4 = Unused
    /\ universe_mom = Unused /\ crsp4 = Unused /\ crsp5 = Unused
    /\ transitions_csv = Unused
    /\ transition_counts = Unused /\ transition_probs = Unused
    /\ row = Unused /\ label = Unused
    /\ lookback_period = Unused /\ lag = Unused /\ vwret = Unused

\* the call compute_rm() of replicate_fama_french and the file it leaves
stage_compute_rm ==
    /\ pc = "replicate"
    /\ files' = to_csv(files, RmFile)
    /\ pc' = "rm_done"
    /\ UNCHANGED <<files_read, argVars, fileVars, rowVars, ffVars, momVars,
                   transitions_csv, probVars, vwret, sortVars>>

stage_compute_hml ==
    /\ pc = "rm_done"
    /\ files' = to_csv(files, HmlFile)
    /\ pc' = "hml_done"
    /\ UNCHANGED <<files_read, argVars, fileVars, rowVars, ffVars, momVars,
                   transitions_csv, probVars, vwret, sortVars>>

stage_compute_rmw ==
    /\ pc = "hml_done"
    /\ files' = to_csv(files, RmwFile)
    /\ pc' = "rmw_done"
    /\ UNCHANGED <<files_read, argVars, fileVars, rowVars, ffVars, momVars,
                   transitions_csv, probVars, vwret, sortVars>>

stage_compute_cma ==
    /\ pc = "rmw_done"
    /\ files' = to_csv(files, CmaFile)
    /\ pc' = "cma_done"
    /\ UNCHANGED <<files_read, argVars, fileVars, rowVars, ffVars, momVars,
                   transitions_csv, probVars, vwret, sortVars>>

stage_compute_umd ==
    /\ pc = "cma_done"
    /\ files' = to_csv(files, UmdFile)
    /\ pc' = "umd_done"
    /\ UNCHANGED <<files_read, argVars, fileVars, rowVars, ffVars, momVars,
                   transitions_csv, probVars, vwret, sortVars>>

\* compare_with_fama_french: read_csv of raw_factors.csv and of the five
\* factor files (FileNotFoundError when one is absent), the merges and the
\* correlations (which raise on a frame without enough rows), to_csv of the
\* replicated factors, then the deletion of the five files
compare_with_fama_french ==
    /\ pc = "umd_done"
    /\ IF \E f \in IntermediateFiles \cup {RawFactors} : files[f] = "absent"
       THEN /\ pc' = "compare_raised"
            /\ UNCHANGED <<files, files_read>>
       ELSE /\ files_read' = [f \in IntermediateFiles \cup {RawFactors}
                                 |-> files[f]]
            /\ \/ /\ pc' = "compare_raised"
                  /\ UNCHANGED files
               \/ /\ files' = Unlinked(to_csv(files, ReplicatedFile))
                  /\ pc' = "replicated"
    /\ UNCHANGED <<argVars, fileVars, rowVars, ffVars, momVars,
                   transitions_csv, probVars, vwret, sortVars>>

NextStages ==
    \/ stage_compute_rm
    \/ stage_compute_hml
    \/ stage_compute_rmw
    \/ stage_compute_cma
    \/ stage_compute_umd
    \/ compare_with_fama_french

SpecStages == InitStages /\ [][NextStages]_vars

\* C30: each of the five intermediate factor files compare_with_fama_french
\* reads was written by its compute step of this run, and when
\* compare_with_fama_french has returned, processed_ff_replicated.csv is
\* written and none of the five intermediate files is left.
C30_StageOrdering ==
    /\ files_read # Unused =>
          \A f \in IntermediateFiles : files_read[f] = "fresh"
    /\ pc = "replicated" =>
          /\ files_read # Unused
          /\ files[ReplicatedFile] = "fresh"
          /\ \A f \in IntermediateFiles : files[f] = "absent"

C30_Witness ==
    /\ pc = "replicated"
    /\ files_read[UmdFile] = "fresh"
    /\ files_read[RmFile] = "fresh"
    /\ files[UmdFile] = "absent"
    /\ files[ReplicatedFile] = "fresh"

=============================================================================
